---- MODULE Spec2Model ----
(***************************************************************************)
(* Fila Solidaria: the donation lifecycle of the backend                   *)
(* (DonationService over the Donation, Candidacy and DonationProgress      *)
(* repositories).  The store is the Prisma/MongoDB database; every         *)
(* repository method is one store call and one atomic step of a request.   *)
(***************************************************************************)
EXTENDS Integers, Sequences, FiniteSets, TLC

(* ------------------------------------------------------------------ *)
(* Bounds and input sets                                                *)
(* ------------------------------------------------------------------ *)
Users == {"u1", "u2", "u3"}
DonationIds == {"d1"}
ObjectIds == {"d1", "d2"}
Values == {"a", "b"}
EditableFields == {"title", "description"}
Reasons == {"item damaged"}
MaxSequentialId == 2
MaxHistory == 2
MaxUpdateKeys == 1

NULL == "null"

Statuses == {"OPEN", "IN_PROGRESS", "PICKED_UP", "COMPLETED"}

DonorFlags == {"pickupConfirmedByDonor", "completionConfirmedByDonor", "returnConfirmedByDonor"}
ReceiverFlags == {"pickupConfirmedByReceiver", "completionConfirmedByReceiver", "returnConfirmedByReceiver"}
ProgressFlags == DonorFlags \cup ReceiverFlags \cup {"returnSignaledByReceiver"}

(* the bodies updateProgressSchema accepts: a non-empty subset of the six flags *)
updateProgressSchema ==
    UNION { [K -> BOOLEAN] : K \in { X \in SUBSET (DonorFlags \cup ReceiverFlags) :
                                        Cardinality(X) >= 1 /\ Cardinality(X) <= MaxUpdateKeys } }

(* the bodies updateDonationSchema accepts: a non-empty subset of the editable fields *)
updateDonationSchema ==
    UNION { [K -> Values] : K \in (SUBSET EditableFields) \ {{}} }

CreateDonationData == { [f \in EditableFields |-> "a"] }

(* a request body that names a donorId next to the fields of b *)
WithDonorId(b, u) == [k \in DOMAIN b \cup {"donorId"} |-> IF k = "donorId" THEN u ELSE b[k]]

NoUpdates == [f \in {} |-> TRUE]
NoData == [f \in {} |-> "a"]

(* what a client may send as the body of PATCH /donations/:id: editable fields, with
   or without a donorId, which is not a key of updateDonationSchema *)
RequestBodies ==
    updateDonationSchema
        \cup { WithDonorId(b, u) : b \in updateDonationSchema \cup {NoData}, u \in Users }

(* the edit followed through the lifecycle: the title set to a new value, sent with
   or without a donorId *)
LifecycleEdits ==
    { [f \in {"title"} |-> "b"], WithDonorId([f \in {"title"} |-> "b"], "u2") }

(* a validation that lets the keys the schema does not know through *)
validate_Passthrough(body) == body

(* validate(updateDonationSchema): zod's parse keeps the keys of the schema and drops
   every other key of the body; the result replaces req.body *)
validate(body) == [k \in DOMAIN body \cap EditableFields |-> body[k]]

(* ------------------------------------------------------------------ *)
(* State                                                                *)
(* ------------------------------------------------------------------ *)
VARIABLES
    donations,     \* Donation collection: id -> record
    progress,      \* DonationProgress collection: donationId -> flags
    candidacies,   \* Candidacy collection: set of [donationId, userId, id]
    history,       \* DonationEditHistory collection: donationId -> sequence of changedFields
    counter,       \* Counter record "donation_sequential_id" (0: not created yet)
    calls,         \* requests in flight or answered and not yet returned: slot -> request
    auth           \* users' passwords, PasswordResetToken and RevokedToken collections, clock

vars == <<donations, progress, candidacies, history, counter, calls, auth>>

Slots == {1, 2}

(* The database as one value, for the repository operators below. *)
Store == [donations |-> donations, progress |-> progress, candidacies |-> candidacies,
          history |-> history, counter |-> counter]

Commit(S) ==
    /\ donations' = S.donations
    /\ progress' = S.progress
    /\ candidacies' = S.candidacies
    /\ history' = S.history
    /\ counter' = S.counter
    /\ UNCHANGED auth

(* ------------------------------------------------------------------ *)
(* Repositories: one operator per store call                            *)
(* ------------------------------------------------------------------ *)
Restrict(f, D) == [x \in D |-> f[x]]

(* DonationRepository.findById: the record or null *)
findById(S, id) == id \in DOMAIN S.donations

(* an upsert that always takes its create branch: the counter is set to 1 *)
getNextSequentialId_AlwaysCreates(S) == [S EXCEPT !.counter = 1]

(* DonationRepository.getNextSequentialId: upsert with increment *)
getNextSequentialId(S) == [S EXCEPT !.counter = S.counter + 1]

(* DonationRepository.create *)
create(S, id, donorId, data, sequentialId) ==
    [S EXCEPT !.donations = [x \in DOMAIN S.donations \cup {id} |->
        IF x = id
        THEN [donorId |-> donorId, receiverId |-> NULL, status |-> "OPEN",
              returnReason |-> NULL, sequentialId |-> sequentialId, fields |-> data]
        ELSE S.donations[x]]]

(* DonationRepository.update: the given fields overwrite the stored ones *)
update(S, id, data) ==
    [S EXCEPT !.donations[id] =
        [@ EXCEPT !.fields = [f \in EditableFields |-> IF f \in DOMAIN data THEN data[f] ELSE @[f]],
                  !.donorId = IF "donorId" \in DOMAIN data THEN data["donorId"] ELSE @]]

(* a delete without onDelete: Cascade: only the donation goes *)
delete_NoCascade(S, id) ==
    [S EXCEPT !.donations = Restrict(@, DOMAIN @ \ {id})]

(* DonationRepository.delete: the store cascades to the records that refer to the donation *)
delete(S, id) ==
    [S EXCEPT !.donations = Restrict(@, DOMAIN @ \ {id}),
              !.progress = Restrict(@, DOMAIN @ \ {id}),
              !.candidacies = { c \in @ : c.donationId # id },
              !.history = Restrict(@, DOMAIN @ \ {id})]

(* a save that keeps only the latest entry of the donation *)
saveDonationEditHistory_KeepsLatest(S, id, changedFields) ==
    [S EXCEPT !.history = [x \in DOMAIN @ \cup {id} |->
        IF x = id THEN <<changedFields>> ELSE @[x]]]

(* DonationRepository.saveDonationEditHistory *)
saveDonationEditHistory(S, id, changedFields) ==
    [S EXCEPT !.history = [x \in DOMAIN @ \cup {id} |->
        IF x \in DOMAIN @ THEN (IF x = id THEN Append(@[x], changedFields) ELSE @[x])
        ELSE <<changedFields>>]]

(* DonationRepository.updateStatus *)
updateStatus(S, id, status) == [S EXCEPT !.donations[id].status = status]

(* DonationRepository.setReceiver *)
setReceiver(S, id, receiverId) ==
    [S EXCEPT !.donations[id].receiverId = receiverId,
              !.donations[id].status = "IN_PROGRESS"]

(* a removeReceiver that reopens the donation and leaves the receiver in place *)
removeReceiver_KeepsReceiver(S, id) ==
    [S EXCEPT !.donations[id].status = "OPEN",
              !.donations[id].returnReason = NULL]

(* a removeReceiver that leaves the return reason in place *)
removeReceiver_KeepsReason(S, id) ==
    [S EXCEPT !.donations[id].receiverId = NULL,
              !.donations[id].status = "OPEN"]

(* DonationRepository.removeReceiver *)
removeReceiver(S, id) ==
    [S EXCEPT !.donations[id].receiverId = NULL,
              !.donations[id].status = "OPEN",
              !.donations[id].returnReason = NULL]

(* DonationRepository.updateReturnReason *)
updateReturnReason(S, id, reason) == [S EXCEPT !.donations[id].returnReason = reason]

(* the Candidacy records of a user for a donation *)
CandidaciesOf(S, id, userId) ==
    { c \in S.candidacies : c.donationId = id /\ c.userId = userId }

(* a lookup that finds a Candidacy for every pair *)
findByDonationAndUser_AlwaysFinds(S, id, userId) == TRUE

(* a lookup that never finds the Candidacy *)
findByDonationAndUser_NeverFinds(S, id, userId) == FALSE

(* CandidacyRepository.findByDonationAndUser: findUnique on the compound key
   donationId_userId, the record or null *)
findByDonationAndUser(S, id, userId) == CandidaciesOf(S, id, userId) # {}

(* a Candidacy collection without the unique index *)
CandidacyUnique_NotEnforced(S, id, userId) == FALSE

(* the unique index on (donationId, userId): a second record for the pair is refused *)
CandidacyUnique(S, id, userId) == CandidaciesOf(S, id, userId) # {}

(* CandidacyRepository.create: a new record, with an id of its own *)
createCandidacy(S, id, userId) ==
    [S EXCEPT !.candidacies = @ \cup
        {[donationId |-> id, userId |-> userId,
          id |-> Cardinality(CandidaciesOf(S, id, userId)) + 1]}]

(* CandidacyRepository.delete: the record that findByDonationAndUser returned *)
deleteCandidacy(S, id, userId) ==
    [S EXCEPT !.candidacies =
        @ \ {CHOOSE c \in CandidaciesOf(S, id, userId) :
                \A e \in CandidaciesOf(S, id, userId) : c.id <= e.id}]

(* a purge that spares the chosen receiver's own candidacy *)
deleteAllByDonation_ExceptChosen(S, id) ==
    [S EXCEPT !.candidacies = { c \in @ : c.donationId # id
                                          \/ (id \in DOMAIN S.donations
                                              /\ c.userId = S.donations[id].receiverId) }]

(* CandidacyRepository.deleteAllByDonation *)
deleteAllByDonation(S, id) ==
    [S EXCEPT !.candidacies = { c \in @ : c.donationId # id }]

(* DonationProgressRepository.findByDonation *)
findByDonation(S, id) == id \in DOMAIN S.progress

(* an index on DonationProgress.donationId that is not unique *)
DonationProgressUnique_NotEnforced(S, id) == FALSE

(* DonationProgress.donationId is @unique: a second record for the donation is refused *)
DonationProgressUnique(S, id) == id \in DOMAIN S.progress

(* DonationProgressRepository.create: every flag false *)
createProgress(S, id) ==
    [S EXCEPT !.progress = [x \in DOMAIN @ \cup {id} |->
        IF x = id THEN [f \in ProgressFlags |-> FALSE] ELSE @[x]]]

(* a write of the whole record: the flags the request does not name are reset *)
updateProgressFlags_WholeRecord(S, id, data) ==
    [S EXCEPT !.progress[id] =
        [f \in ProgressFlags |-> IF f \in DOMAIN data THEN data[f] ELSE FALSE]]

(* DonationProgressRepository.update: field-level write of the given flags *)
updateProgressFlags(S, id, data) ==
    [S EXCEPT !.progress[id] =
        [f \in ProgressFlags |-> IF f \in DOMAIN data THEN data[f] ELSE @[f]]]

(* DonationProgressRepository.delete *)
deleteProgress(S, id) ==
    [S EXCEPT !.progress = Restrict(@, DOMAIN @ \ {id})]

(* a completion test that is satisfied by one party's confirmation *)
isReturnCompleted_EitherParty(S, id) ==
    /\ findByDonation(S, id)
    /\ S.progress[id]["returnSignaledByReceiver"]
    /\ S.progress[id]["returnConfirmedByDonor"] \/ S.progress[id]["returnConfirmedByReceiver"]

(* DonationProgressRepository.isReturnCompleted *)
isReturnCompleted(S, id) ==
    /\ findByDonation(S, id)
    /\ S.progress[id]["returnSignaledByReceiver"]
    /\ S.progress[id]["returnConfirmedByDonor"]
    /\ S.progress[id]["returnConfirmedByReceiver"]

(* DonationProgressRepository.canSignalReturn *)
canSignalReturn(S, id) ==
    /\ findByDonation(S, id)
    /\ S.progress[id]["pickupConfirmedByDonor"]
    /\ S.progress[id]["pickupConfirmedByReceiver"]

(* the stored donation as the object updateDonation hands to getObjectDifferences *)
DonationObject(d) ==
    [k \in EditableFields \cup {"donorId"} |-> IF k = "donorId" THEN d.donorId ELSE d.fields[k]]

(* a diff that records every key of newObj, changed or not *)
getObjectDifferences_AllKeys(oldObj, newObj) ==
    [k \in DOMAIN newObj |-> [oldValue |-> oldObj[k], newValue |-> newObj[k]]]

(* getObjectDifferences: the keys of newObj whose value differs from oldObj *)
getObjectDifferences(oldObj, newObj) ==
    [k \in { f \in DOMAIN newObj : oldObj[f] # newObj[f] } |->
        [oldValue |-> oldObj[k], newValue |-> newObj[k]]]

(* ------------------------------------------------------------------ *)
(* Requests                                                             *)
(* ------------------------------------------------------------------ *)
NoRecord == [null |-> TRUE]
Idle == [op |-> "idle"]

(* A request of the service: its arguments, the store call it is about to make (pc),
   the values its handler holds in local variables, and its outcome.  alone records,
   for the properties, what the handler would have answered had it run with no other
   request in flight from the state in which it arrived. *)
Req(op, id, userId, receiverId, updates, data, reason, first) ==
    [op |-> op, id |-> id, userId |-> userId, receiverId |-> receiverId,
     updates |-> updates, data |-> data, reason |-> reason,
     pc |-> first, result |-> "pending", alone |-> "pending",
     donation |-> NoRecord, updatedProgress |-> NoRecord, sequentialId |-> 0]

Goto(S, r, pc) == [S |-> S, r |-> [r EXCEPT !.pc = pc]]
Done(S, r, result) == [S |-> S, r |-> [r EXCEPT !.pc = "done", !.result = result]]

(* errorHandler: Prisma's P2025 (record to update or delete not found) answers 404,
   P2002 (unique constraint) answers 409 *)
P2025 == "NotFound"
P2002 == "Conflict"

(* the store calls that write *)
StoreWrites == {"getNextSequentialId", "create", "update", "saveDonationEditHistory", "delete",
                "createCandidacy", "deleteCandidacy", "setReceiver", "createProgress",
                "deleteAllByDonation", "removeReceiver", "deleteProgress",
                "updateProgressFlags", "updateStatusPickedUp", "updateStatusCompleted",
                "updateReturnReason"}

(* ------------------------------------------------------------------ *)
(* DonationService: each operator runs the handler from one store call  *)
(* up to the next one                                                   *)
(* ------------------------------------------------------------------ *)
createDonationStep(S, r) ==
    CASE r.pc = "findUser" ->
            IF r.userId \notin Users THEN Done(S, r, "NotFound")
            ELSE Goto(S, r, "getNextSequentialId")
      [] r.pc = "getNextSequentialId" ->
            LET T == getNextSequentialId(S)
            IN Goto(T, [r EXCEPT !.sequentialId = T.counter], "create")
      [] r.pc = "create" ->
            Done(create(S, r.id, r.userId, r.data, r.sequentialId), r, "OK")

(* an updateDonation without the check that the actor is the donor *)
updateDonationStep_NoDonorCheck(S, r) ==
    CASE r.pc = "findById" ->
            IF ~findById(S, r.id) THEN Done(S, r, "NotFound")
            ELSE LET donation == S.donations[r.id] IN
                 IF donation.status # "OPEN" THEN Done(S, r, "ValidationFailed")
                 ELSE IF DOMAIN getObjectDifferences(DonationObject(donation), r.data) = {}
                      THEN Done(S, r, "OK")
                 ELSE Goto(S, [r EXCEPT !.donation = donation], "update")
      [] r.pc = "update" ->
            IF ~findById(S, r.id) THEN Done(S, r, P2025)
            ELSE Goto(update(S, r.id, r.data), r, "saveDonationEditHistory")
      [] r.pc = "saveDonationEditHistory" ->
            Done(saveDonationEditHistory(S, r.id,
                    getObjectDifferences(DonationObject(r.donation), r.data)), r, "OK")

updateDonationStep(S, r) ==
    CASE r.pc = "findById" ->
            IF ~findById(S, r.id) THEN Done(S, r, "NotFound")
            ELSE LET donation == S.donations[r.id] IN
                 IF donation.donorId # r.userId THEN Done(S, r, "Forbidden")
                 ELSE IF donation.status # "OPEN" THEN Done(S, r, "ValidationFailed")
                 ELSE IF DOMAIN getObjectDifferences(DonationObject(donation), r.data) = {}
                      THEN Done(S, r, "OK")
                 ELSE Goto(S, [r EXCEPT !.donation = donation], "update")
      [] r.pc = "update" ->
            IF ~findById(S, r.id) THEN Done(S, r, P2025)
            ELSE Goto(update(S, r.id, r.data), r, "saveDonationEditHistory")
      [] r.pc = "saveDonationEditHistory" ->
            Done(saveDonationEditHistory(S, r.id,
                    getObjectDifferences(DonationObject(r.donation), r.data)), r, "OK")

deleteDonationStep(S, r) ==
    CASE r.pc = "findById" ->
            IF ~findById(S, r.id) THEN Done(S, r, "NotFound")
            ELSE LET donation == S.donations[r.id] IN
                 IF donation.donorId # r.userId THEN Done(S, r, "Forbidden")
                 ELSE IF donation.status # "OPEN" THEN Done(S, r, "ValidationFailed")
                 ELSE Goto(S, r, "delete")
      [] r.pc = "delete" ->
            IF ~findById(S, r.id) THEN Done(S, r, P2025)
            ELSE Done(delete(S, r.id), r, "OK")

(* an applyForDonation without the check of the donation's status *)
applyForDonationStep_NoStatusCheck(S, r) ==
    CASE r.pc = "findById" ->
            IF ~findById(S, r.id) THEN Done(S, r, "NotFound")
            ELSE IF S.donations[r.id].donorId = r.userId THEN Done(S, r, "ValidationFailed")
            ELSE Goto(S, r, "findByDonationAndUser")
      [] r.pc = "findByDonationAndUser" ->
            IF findByDonationAndUser(S, r.id, r.userId) THEN Done(S, r, "ValidationFailed")
            ELSE Goto(S, r, "createCandidacy")
      [] r.pc = "createCandidacy" ->
            IF CandidacyUnique(S, r.id, r.userId) THEN Done(S, r, P2002)
            ELSE Done(createCandidacy(S, r.id, r.userId), r, "OK")

(* an applyForDonation without the check that the applicant is not the donor *)
applyForDonationStep_NoDonorCheck(S, r) ==
    CASE r.pc = "findById" ->
            IF ~findById(S, r.id) THEN Done(S, r, "NotFound")
            ELSE IF S.donations[r.id].status # "OPEN" THEN Done(S, r, "ValidationFailed")
            ELSE Goto(S, r, "findByDonationAndUser")
      [] r.pc = "findByDonationAndUser" ->
            IF findByDonationAndUser(S, r.id, r.userId) THEN Done(S, r, "ValidationFailed")
            ELSE Goto(S, r, "createCandidacy")
      [] r.pc = "createCandidacy" ->
            IF CandidacyUnique(S, r.id, r.userId) THEN Done(S, r, P2002)
            ELSE Done(createCandidacy(S, r.id, r.userId), r, "OK")

applyForDonationStep(S, r) ==
    CASE r.pc = "findById" ->
            IF ~findById(S, r.id) THEN Done(S, r, "NotFound")
            ELSE LET donation == S.donations[r.id] IN
                 IF donation.donorId = r.userId THEN Done(S, r, "ValidationFailed")
                 ELSE IF donation.status # "OPEN" THEN Done(S, r, "ValidationFailed")
                 ELSE Goto(S, r, "findByDonationAndUser")
      [] r.pc = "findByDonationAndUser" ->
            IF findByDonationAndUser(S, r.id, r.userId) THEN Done(S, r, "ValidationFailed")
            ELSE Goto(S, r, "createCandidacy")
      [] r.pc = "createCandidacy" ->
            IF CandidacyUnique(S, r.id, r.userId) THEN Done(S, r, P2002)
            ELSE Done(createCandidacy(S, r.id, r.userId), r, "OK")

(* a withdrawCandidacy that checks the status before it looks for the candidacy *)
withdrawCandidacyStep_StatusFirst(S, r) ==
    CASE r.pc = "findById" ->
            IF ~findById(S, r.id) THEN Done(S, r, "NotFound")
            ELSE Goto(S, [r EXCEPT !.donation = S.donations[r.id]], "findByDonationAndUser")
      [] r.pc = "findByDonationAndUser" ->
            IF r.donation.status # "OPEN" THEN Done(S, r, "ValidationFailed")
            ELSE IF ~findByDonationAndUser(S, r.id, r.userId) THEN Done(S, r, "NotFound")
            ELSE Goto(S, r, "deleteCandidacy")
      [] r.pc = "deleteCandidacy" ->
            IF CandidaciesOf(S, r.id, r.userId) = {} THEN Done(S, r, P2025)
            ELSE Done(deleteCandidacy(S, r.id, r.userId), r, "OK")

withdrawCandidacyStep(S, r) ==
    CASE r.pc = "findById" ->
            IF ~findById(S, r.id) THEN Done(S, r, "NotFound")
            ELSE Goto(S, [r EXCEPT !.donation = S.donations[r.id]], "findByDonationAndUser")
      [] r.pc = "findByDonationAndUser" ->
            IF ~findByDonationAndUser(S, r.id, r.userId) THEN Done(S, r, "NotFound")
            ELSE IF r.donation.status = "OPEN" THEN Goto(S, r, "deleteCandidacy")
            ELSE Done(S, r, "ValidationFailed")
      [] r.pc = "deleteCandidacy" ->
            IF CandidaciesOf(S, r.id, r.userId) = {} THEN Done(S, r, P2025)
            ELSE Done(deleteCandidacy(S, r.id, r.userId), r, "OK")

chooseReceiverStep(S, r) ==
    CASE r.pc = "findById" ->
            IF ~findById(S, r.id) THEN Done(S, r, "NotFound")
            ELSE LET donation == S.donations[r.id] IN
                 IF donation.donorId # r.userId THEN Done(S, r, "Forbidden")
                 ELSE IF donation.status # "OPEN" THEN Done(S, r, "ValidationFailed")
                 ELSE Goto(S, r, "findByDonationAndUser")
      [] r.pc = "findByDonationAndUser" ->
            IF ~findByDonationAndUser(S, r.id, r.receiverId) THEN Done(S, r, "ValidationFailed")
            ELSE Goto(S, r, "setReceiver")
      [] r.pc = "setReceiver" ->
            IF ~findById(S, r.id) THEN Done(S, r, P2025)
            ELSE Goto(setReceiver(S, r.id, r.receiverId), r, "createProgress")
      [] r.pc = "createProgress" ->
            IF DonationProgressUnique(S, r.id) THEN Done(S, r, P2002)
            ELSE Goto(createProgress(S, r.id), r, "deleteAllByDonation")
      [] r.pc = "deleteAllByDonation" ->
            Done(deleteAllByDonation(S, r.id), r, "OK")

(* a cancelReceiving without the check that the status is IN_PROGRESS *)
cancelReceivingStep_NoStatusCheck(S, r) ==
    CASE r.pc = "findById" ->
            IF ~findById(S, r.id) THEN Done(S, r, "NotFound")
            ELSE LET donation == S.donations[r.id] IN
                 IF donation.receiverId # r.userId THEN Done(S, r, "Forbidden")
                 ELSE Goto(S, r, "removeReceiver")
      [] r.pc = "removeReceiver" ->
            IF ~findById(S, r.id) THEN Done(S, r, P2025)
            ELSE Goto(removeReceiver(S, r.id), r, "deleteProgress")
      [] r.pc = "deleteProgress" ->
            IF ~findByDonation(S, r.id) THEN Done(S, r, P2025)
            ELSE Done(deleteProgress(S, r.id), r, "OK")

cancelReceivingStep(S, r) ==
    CASE r.pc = "findById" ->
            IF ~findById(S, r.id) THEN Done(S, r, "NotFound")
            ELSE LET donation == S.donations[r.id] IN
                 IF donation.receiverId # r.userId THEN Done(S, r, "Forbidden")
                 ELSE IF donation.status # "IN_PROGRESS" THEN Done(S, r, "ValidationFailed")
                 ELSE Goto(S, r, "removeReceiver")
      [] r.pc = "removeReceiver" ->
            IF ~findById(S, r.id) THEN Done(S, r, P2025)
            ELSE Goto(removeReceiver(S, r.id), r, "deleteProgress")
      [] r.pc = "deleteProgress" ->
            IF ~findByDonation(S, r.id) THEN Done(S, r, P2025)
            ELSE Done(deleteProgress(S, r.id), r, "OK")

(* updates.flag ?? progress.flag *)
Coalesce(updates, stored, flag) ==
    IF flag \in DOMAIN updates THEN updates[flag] ELSE stored[flag]

(* updates.flag as a condition: undefined is falsy *)
Truthy(updates, flag) == flag \in DOMAIN updates /\ updates[flag]

(* a check of the other party's half that looks at the flags' values
   (updates.flag instead of updates.flag !== undefined) *)
OtherPartyFlags_TruthyOnly(isDonor, isReceiver, updates) ==
    \/ isDonor /\ \E f \in DOMAIN updates \cap ReceiverFlags : updates[f]
    \/ isReceiver /\ \E f \in DOMAIN updates \cap DonorFlags : updates[f]

(* updateProgress: the request names a flag of the other party's half
   (updates.flag !== undefined, whatever its value) *)
OtherPartyFlags(isDonor, isReceiver, updates) ==
    \/ isDonor /\ DOMAIN updates \cap ReceiverFlags # {}
    \/ isReceiver /\ DOMAIN updates \cap DonorFlags # {}

(* status transitions that stop at PICKED_UP: the completion flags move nothing *)
AfterProgressWrite_PickupOnly(r, updatedProgress, pickedUpDone) ==
    IF /\ ~pickedUpDone
       /\ updatedProgress["pickupConfirmedByDonor"]
       /\ updatedProgress["pickupConfirmedByReceiver"]
       /\ r.donation.status = "IN_PROGRESS"
    THEN "updateStatusPickedUp"
    ELSE "getDonation"

(* status transitions that one party's confirmation is enough to trigger *)
AfterProgressWrite_EitherParty(r, updatedProgress, pickedUpDone) ==
    IF /\ ~pickedUpDone
       /\ updatedProgress["pickupConfirmedByDonor"] \/ updatedProgress["pickupConfirmedByReceiver"]
       /\ r.donation.status = "IN_PROGRESS"
    THEN "updateStatusPickedUp"
    ELSE IF /\ updatedProgress["completionConfirmedByDonor"]
               \/ updatedProgress["completionConfirmedByReceiver"]
            /\ r.donation.status # "COMPLETED"
    THEN "updateStatusCompleted"
    ELSE "getDonation"

(* the store call that follows the flag write of updateProgress *)
AfterProgressWrite(r, updatedProgress, pickedUpDone) ==
    IF /\ ~pickedUpDone
       /\ updatedProgress["pickupConfirmedByDonor"]
       /\ updatedProgress["pickupConfirmedByReceiver"]
       /\ r.donation.status = "IN_PROGRESS"
    THEN "updateStatusPickedUp"
    ELSE IF /\ updatedProgress["completionConfirmedByDonor"]
            /\ updatedProgress["completionConfirmedByReceiver"]
            /\ r.donation.status # "COMPLETED"
    THEN "updateStatusCompleted"
    ELSE "getDonation"

updateProgressStep(S, r) ==
    CASE r.pc = "findById" ->
            IF ~findById(S, r.id) THEN Done(S, r, "NotFound")
            ELSE LET donation == S.donations[r.id] IN
                 IF donation.receiverId = NULL THEN Done(S, r, "ValidationFailed")
                 ELSE Goto(S, [r EXCEPT !.donation = donation], "findByDonation")
      [] r.pc = "findByDonation" ->
            IF ~findByDonation(S, r.id) THEN Done(S, r, "ValidationFailed")
            ELSE LET stored == S.progress[r.id]
                     isDonor == r.donation.donorId = r.userId
                     isReceiver == r.donation.receiverId = r.userId
                     pickupConfirmed ==
                        /\ Coalesce(r.updates, stored, "pickupConfirmedByDonor")
                        /\ Coalesce(r.updates, stored, "pickupConfirmedByReceiver")
                 IN
                 IF ~isDonor /\ ~isReceiver THEN Done(S, r, "Forbidden")
                 ELSE IF OtherPartyFlags(isDonor, isReceiver, r.updates)
                      THEN Done(S, r, "Forbidden")
                 ELSE IF /\ \/ Truthy(r.updates, "completionConfirmedByDonor")
                            \/ Truthy(r.updates, "completionConfirmedByReceiver")
                         /\ ~pickupConfirmed
                      THEN Done(S, r, "ValidationFailed")
                 ELSE IF Truthy(r.updates, "returnConfirmedByReceiver") /\ ~pickupConfirmed
                      THEN Done(S, r, "ValidationFailed")
                 ELSE Goto(S, r, "updateProgressFlags")
      [] r.pc = "updateProgressFlags" ->
            IF ~findByDonation(S, r.id) THEN Done(S, r, P2025)
            ELSE LET T == updateProgressFlags(S, r.id, r.updates)
                     q == [r EXCEPT !.updatedProgress = T.progress[r.id]]
                 IN Goto(T, q, AfterProgressWrite(q, q.updatedProgress, FALSE))
      [] r.pc = "updateStatusPickedUp" ->
            IF ~findById(S, r.id) THEN Done(S, r, P2025)
            ELSE Goto(updateStatus(S, r.id, "PICKED_UP"), r,
                      AfterProgressWrite(r, r.updatedProgress, TRUE))
      [] r.pc = "updateStatusCompleted" ->
            IF ~findById(S, r.id) THEN Done(S, r, P2025)
            ELSE Goto(updateStatus(S, r.id, "COMPLETED"), r, "getDonation")
      [] r.pc = "getDonation" ->
            IF ~findById(S, r.id) THEN Done(S, r, "NotFound")
            ELSE Done(S, r, "OK")

signalReturnStep(S, r) ==
    CASE r.pc = "findById" ->
            IF ~findById(S, r.id) THEN Done(S, r, "NotFound")
            ELSE IF S.donations[r.id].receiverId # r.userId THEN Done(S, r, "Forbidden")
            ELSE Goto(S, r, "findByDonation")
      [] r.pc = "findByDonation" ->
            IF ~findByDonation(S, r.id) THEN Done(S, r, "ValidationFailed")
            ELSE Goto(S, r, "canSignalReturn")
      [] r.pc = "canSignalReturn" ->
            IF ~canSignalReturn(S, r.id) THEN Done(S, r, "ValidationFailed")
            ELSE Goto(S, r, "updateProgressFlags")
      [] r.pc = "updateProgressFlags" ->
            IF ~findByDonation(S, r.id) THEN Done(S, r, P2025)
            ELSE Goto(updateProgressFlags(S, r.id, [f \in {"returnSignaledByReceiver"} |-> TRUE]),
                      r, "updateReturnReason")
      [] r.pc = "updateReturnReason" ->
            IF ~findById(S, r.id) THEN Done(S, r, P2025)
            ELSE Done(updateReturnReason(S, r.id, r.reason), r, "OK")

(* a confirmReturn without the check that the return has been signaled *)
confirmReturnStep_NoSignalCheck(S, r) ==
    CASE r.pc = "findById" ->
            IF ~findById(S, r.id) THEN Done(S, r, "NotFound")
            ELSE LET donation == S.donations[r.id] IN
                 IF donation.donorId # r.userId /\ donation.receiverId # r.userId
                 THEN Done(S, r, "Forbidden")
                 ELSE Goto(S, [r EXCEPT !.donation = donation], "findByDonation")
      [] r.pc = "findByDonation" ->
            IF ~findByDonation(S, r.id) THEN Done(S, r, "ValidationFailed")
            ELSE Goto(S, r, "updateProgressFlags")
      [] r.pc = "updateProgressFlags" ->
            IF ~findByDonation(S, r.id) THEN Done(S, r, P2025)
            ELSE LET flag == IF r.donation.donorId = r.userId
                             THEN "returnConfirmedByDonor" ELSE "returnConfirmedByReceiver"
                 IN Goto(updateProgressFlags(S, r.id, [f \in {flag} |-> TRUE]),
                         r, "isReturnCompleted")
      [] r.pc = "isReturnCompleted" ->
            IF isReturnCompleted(S, r.id) THEN Goto(S, r, "removeReceiver")
            ELSE Done(S, r, "OK")
      [] r.pc = "removeReceiver" ->
            IF ~findById(S, r.id) THEN Done(S, r, P2025)
            ELSE Goto(removeReceiver(S, r.id), r, "deleteProgress")
      [] r.pc = "deleteProgress" ->
            IF ~findByDonation(S, r.id) THEN Done(S, r, P2025)
            ELSE Done(deleteProgress(S, r.id), r, "OK")

confirmReturnStep(S, r) ==
    CASE r.pc = "findById" ->
            IF ~findById(S, r.id) THEN Done(S, r, "NotFound")
            ELSE LET donation == S.donations[r.id] IN
                 IF donation.donorId # r.userId /\ donation.receiverId # r.userId
                 THEN Done(S, r, "Forbidden")
                 ELSE Goto(S, [r EXCEPT !.donation = donation], "findByDonation")
      [] r.pc = "findByDonation" ->
            IF ~findByDonation(S, r.id) THEN Done(S, r, "ValidationFailed")
            ELSE IF ~S.progress[r.id]["returnSignaledByReceiver"]
                 THEN Done(S, r, "ValidationFailed")
            ELSE Goto(S, r, "updateProgressFlags")
      [] r.pc = "updateProgressFlags" ->
            IF ~findByDonation(S, r.id) THEN Done(S, r, P2025)
            ELSE LET flag == IF r.donation.donorId = r.userId
                             THEN "returnConfirmedByDonor" ELSE "returnConfirmedByReceiver"
                 IN Goto(updateProgressFlags(S, r.id, [f \in {flag} |-> TRUE]),
                         r, "isReturnCompleted")
      [] r.pc = "isReturnCompleted" ->
            IF isReturnCompleted(S, r.id) THEN Goto(S, r, "removeReceiver")
            ELSE Done(S, r, "OK")
      [] r.pc = "removeReceiver" ->
            IF ~findById(S, r.id) THEN Done(S, r, P2025)
            ELSE Goto(removeReceiver(S, r.id), r, "deleteProgress")
      [] r.pc = "deleteProgress" ->
            IF ~findByDonation(S, r.id) THEN Done(S, r, P2025)
            ELSE Done(deleteProgress(S, r.id), r, "OK")

(* One store call of a request; fail: the store rejects the call (writes only). *)
Step(S, r, fail) ==
    IF fail /\ r.pc \in StoreWrites THEN Done(S, r, "InternalError")
    ELSE CASE r.op = "createDonation" -> createDonationStep(S, r)
           [] r.op = "updateDonation" -> updateDonationStep(S, r)
           [] r.op = "deleteDonation" -> deleteDonationStep(S, r)
           [] r.op = "applyForDonation" -> applyForDonationStep(S, r)
           [] r.op = "withdrawCandidacy" -> withdrawCandidacyStep(S, r)
           [] r.op = "chooseReceiver" -> chooseReceiverStep(S, r)
           [] r.op = "cancelReceiving" -> cancelReceivingStep(S, r)
           [] r.op = "updateProgress" -> updateProgressStep(S, r)
           [] r.op = "signalReturn" -> signalReturnStep(S, r)
           [] r.op = "confirmReturn" -> confirmReturnStep(S, r)

(* The whole handler, awaited call after awaited call; failAt: which of its
   store writes the store rejects (0: none). *)
RECURSIVE Run(_, _, _)
Run(S, r, failAt) ==
    IF r.pc = "done" THEN [S |-> S, r |-> r]
    ELSE LET isWrite == r.pc \in StoreWrites
             x == Step(S, r, isWrite /\ failAt = 1)
         IN Run(x.S, x.r, IF isWrite /\ failAt > 0 THEN failAt - 1 ELSE failAt)

(* ------------------------------------------------------------------ *)
(* Actions                                                              *)
(* ------------------------------------------------------------------ *)
EmptyCollection == [x \in {} |-> NoRecord]

(* the registered users of the auth routes, and the passwords a client may send *)
Accounts == {"u1", "u2"}
Passwords == {"p0", "p1"}

(* bcrypt.hash / bcrypt.compare: the stored value is not the password, and compare
   accepts exactly the password that was hashed *)
hashPassword(password) == [bcrypt |-> password]

comparePassword(password, hash) == hash = hashPassword(password)

MaxClock == 2
MaxIssued == 3

(* JWT_CONFIG.expiresInWeb / expiresInMobile and the reset token's hour, in clock ticks:
   a web token expires within the clock's range, a mobile token does not *)
ExpiresInWeb == 1
ExpiresInMobile == MaxClock + 1
ResetTokenLifetime == 1

(* values of generateSecureToken, and the emails a client may send *)
ResetTokenValues == {"r1", "r2"}
Emails == Accounts \cup {"nobody"}

(* jwt.sign: the token carries the user and its expiry and is signed with the secret;
   every platform but "web" gets the mobile expiry *)
generateToken(userId, platform, now) ==
    [userId |-> userId,
     exp |-> now + (IF platform = "web" THEN ExpiresInWeb ELSE ExpiresInMobile),
     signed |-> TRUE]

(* Both users have registered at clock 0 with password p0, which handed each a web
   token; no reset token, no revoked token.  loggedOut and resetSucceeded remember the
   tokens whose logout, respectively resetPassword, was answered with success;
   generated remembers the values generateSecureToken has returned. *)
InitAuth ==
    [now |-> 0,
     password |-> [u \in Accounts |-> hashPassword("p0")],
     passwordResetTokens |-> EmptyCollection,
     revokedTokens |-> {},
     issued |-> { generateToken(u, "web", 0) : u \in Accounts },
     loggedOut |-> {},
     generated |-> {},
     resetSucceeded |-> {}]

Init ==
    /\ donations = EmptyCollection
    /\ progress = EmptyCollection
    /\ candidacies = {}
    /\ history = EmptyCollection
    /\ counter = 0
    /\ calls = [s \in Slots |-> Idle]
    /\ auth = InitAuth

FailPoints == 0 .. 3

(* A request arrives in slot s.  atomic: the handler runs to its answer with no other
   request in flight; otherwise it makes its first store call and the later ones are
   separate steps (Continue).  Slots fill in order: they are interchangeable. *)
Start(s, r, atomic, failAt) ==
    /\ atomic => \A t \in Slots : calls[t] = Idle
    /\ \A t \in Slots : t < s => calls[t] # Idle
    /\ LET q == [r EXCEPT !.alone = Run(Store, r, 0).r.result]
           x == IF atomic THEN Run(Store, q, failAt) ELSE Step(Store, q, FALSE)
       IN /\ Commit(x.S)
          /\ calls' = [calls EXCEPT ![s] = x.r]

(* the ObjectIds that creations in flight will give to their donations *)
ReservedIds == { calls[t].id : t \in { u \in Slots : calls[u] # Idle /\ calls[u].op = "createDonation" } }

(* the store assigns a new donation its ObjectId: the model hands them out in order *)
NextObjectId == IF "d1" \notin ReservedIds THEN "d1" ELSE "d2"

(* One donation is followed at a time: a creation starts on a store that holds no
   donation, and a second id serves the creation that runs concurrently with it. *)
createDonation(s, donorId, data, atomic, failAt) ==
    /\ calls[s] = Idle
    /\ counter < MaxSequentialId
    /\ DOMAIN donations = {}
    /\ ReservedIds # ObjectIds
    /\ Start(s, Req("createDonation", NextObjectId, donorId, NULL, NoUpdates, data, NULL, "findUser"),
             atomic, failAt)

(* data: the validated body; updateDonationSchema's refine refuses a body with no
   field left before the service is called *)
updateDonation(s, donationId, userId, data, atomic, failAt) ==
    /\ calls[s] = Idle
    /\ DOMAIN data # {}
    /\ donationId \in DOMAIN history => Len(history[donationId]) < MaxHistory
    /\ Start(s, Req("updateDonation", donationId, userId, NULL, NoUpdates, data, NULL, "findById"),
             atomic, failAt)

deleteDonation(s, donationId, userId, atomic, failAt) ==
    /\ calls[s] = Idle
    /\ Start(s, Req("deleteDonation", donationId, userId, NULL, NoUpdates, NoData, NULL, "findById"),
             atomic, failAt)

applyForDonation(s, donationId, userId, atomic, failAt) ==
    /\ calls[s] = Idle
    /\ Start(s, Req("applyForDonation", donationId, userId, NULL, NoUpdates, NoData, NULL, "findById"),
             atomic, failAt)

withdrawCandidacy(s, donationId, userId, atomic, failAt) ==
    /\ calls[s] = Idle
    /\ Start(s, Req("withdrawCandidacy", donationId, userId, NULL, NoUpdates, NoData, NULL, "findById"),
             atomic, failAt)

chooseReceiver(s, donationId, receiverId, donorId, atomic, failAt) ==
    /\ calls[s] = Idle
    /\ Start(s, Req("chooseReceiver", donationId, donorId, receiverId, NoUpdates, NoData, NULL, "findById"),
             atomic, failAt)

cancelReceiving(s, donationId, userId, atomic, failAt) ==
    /\ calls[s] = Idle
    /\ Start(s, Req("cancelReceiving", donationId, userId, NULL, NoUpdates, NoData, NULL, "findById"),
             atomic, failAt)

updateProgress(s, donationId, userId, updates, atomic, failAt) ==
    /\ calls[s] = Idle
    /\ Start(s, Req("updateProgress", donationId, userId, NULL, updates, NoData, NULL, "findById"),
             atomic, failAt)

signalReturn(s, donationId, userId, reason, atomic, failAt) ==
    /\ calls[s] = Idle
    /\ Start(s, Req("signalReturn", donationId, userId, NULL, NoUpdates, NoData, reason, "findById"),
             atomic, failAt)

confirmReturn(s, donationId, userId, atomic, failAt) ==
    /\ calls[s] = Idle
    /\ Start(s, Req("confirmReturn", donationId, userId, NULL, NoUpdates, NoData, NULL, "findById"),
             atomic, failAt)

(* the answer of slot s goes back to the client *)
Respond(s) ==
    /\ calls[s] # Idle
    /\ calls[s].pc = "done"
    /\ calls' = [calls EXCEPT ![s] = Idle]
    /\ UNCHANGED <<donations, progress, candidacies, history, counter, auth>>

(* Requests one at a time, each handler running to its answer. *)
Next ==
    \/ \E u \in Users, data \in CreateDonationData : createDonation(1, u, data, TRUE, 0)
    \/ \E id \in DonationIds, u \in Users, body \in LifecycleEdits :
          updateDonation(1, id, u, validate(body), TRUE, 0)
    \/ \E id \in DonationIds, u \in Users : deleteDonation(1, id, u, TRUE, 0)
    \/ \E id \in DonationIds, u \in Users : applyForDonation(1, id, u, TRUE, 0)
    \/ \E id \in DonationIds, u \in Users : withdrawCandidacy(1, id, u, TRUE, 0)
    \/ \E id \in DonationIds, u \in Users, v \in Users : chooseReceiver(1, id, v, u, TRUE, 0)
    \/ \E id \in DonationIds, u \in Users : cancelReceiving(1, id, u, TRUE, 0)
    \/ \E id \in DonationIds, u \in Users, updates \in updateProgressSchema :
          updateProgress(1, id, u, updates, TRUE, 0)
    \/ \E id \in DonationIds, u \in Users, reason \in Reasons : signalReturn(1, id, u, reason, TRUE, 0)
    \/ \E id \in DonationIds, u \in Users : confirmReturn(1, id, u, TRUE, 0)
    \/ Respond(1)

Spec == Init /\ [][Next]_vars

(* ---- concurrent requests ---- *)

(* the next store call of the request in slot s *)
Continue(s) ==
    /\ calls[s] # Idle
    /\ calls[s].pc # "done"
    /\ LET x == Step(Store, calls[s], FALSE)
       IN /\ Commit(x.S)
          /\ calls' = [calls EXCEPT ![s] = x.r]

(* The states between requests from which two concurrent requests are followed: the
   empty database, and one donation of u1 at each stage of its lifecycle (u2 the
   receiver), as the handlers leave it when they run one at a time. *)
Flags(T) == [f \in ProgressFlags |-> f \in T]

PickedUpFlags ==
    { {"pickupConfirmedByDonor", "pickupConfirmedByReceiver"} \cup c \cup r :
        c \in {{}, {"completionConfirmedByDonor"}, {"completionConfirmedByReceiver"}},
        r \in {{}, {"returnSignaledByReceiver"},
               {"returnSignaledByReceiver", "returnConfirmedByDonor"},
               {"returnSignaledByReceiver", "returnConfirmedByReceiver"}} }

LifecycleStates ==
    { [status |-> "OPEN", receiverId |-> NULL, flags |-> {"none"}, candidates |-> C] :
        C \in SUBSET {"u2", "u3"} }
    \cup
    { [status |-> "IN_PROGRESS", receiverId |-> "u2", flags |-> T, candidates |-> {}] :
        T \in {{}, {"pickupConfirmedByDonor"}, {"pickupConfirmedByReceiver"}} }
    \cup
    { [status |-> "PICKED_UP", receiverId |-> "u2", flags |-> T, candidates |-> {}] :
        T \in PickedUpFlags }
    \cup
    { [status |-> "COMPLETED", receiverId |-> "u2", candidates |-> {},
       flags |-> {"pickupConfirmedByDonor", "pickupConfirmedByReceiver",
                  "completionConfirmedByDonor", "completionConfirmedByReceiver"}] }

LifecycleStore(st, id) ==
    [donations |-> [d \in {id} |->
        [donorId |-> "u1", receiverId |-> st.receiverId, status |-> st.status,
         returnReason |-> IF "returnSignaledByReceiver" \in st.flags
                          THEN "item damaged" ELSE NULL,
         sequentialId |-> 1, fields |-> [f \in EditableFields |-> "a"]]],
     progress |-> IF st.status = "OPEN" THEN EmptyCollection
                  ELSE [d \in {id} |-> Flags(st.flags)],
     candidacies |-> { [donationId |-> id, userId |-> u, id |-> 1] : u \in st.candidates },
     history |-> EmptyCollection,
     counter |-> 1]

InitConc ==
    \/ Init
    \/ \E st \in LifecycleStates, id \in DonationIds :
          /\ donations = LifecycleStore(st, id).donations
          /\ progress = LifecycleStore(st, id).progress
          /\ candidacies = LifecycleStore(st, id).candidacies
          /\ history = LifecycleStore(st, id).history
          /\ counter = LifecycleStore(st, id).counter
          /\ calls = [s \in Slots |-> Idle]
          /\ auth = InitAuth

(* Two requests in flight at once, every store call of each a step of its own. *)
NextConc ==
    \/ \E s \in Slots, u \in Users, data \in CreateDonationData :
          createDonation(s, u, data, FALSE, 0)
    \/ \E s \in Slots, id \in DonationIds, u \in Users, body \in LifecycleEdits :
          updateDonation(s, id, u, validate(body), FALSE, 0)
    \/ \E s \in Slots, id \in DonationIds, u \in Users :
          deleteDonation(s, id, u, FALSE, 0)
    \/ \E s \in Slots, id \in DonationIds, u \in Users :
          applyForDonation(s, id, u, FALSE, 0)
    \/ \E s \in Slots, id \in DonationIds, u \in Users :
          withdrawCandidacy(s, id, u, FALSE, 0)
    \/ \E s \in Slots, id \in DonationIds, u \in Users, v \in Users :
          chooseReceiver(s, id, v, u, FALSE, 0)
    \/ \E s \in Slots, id \in DonationIds, u \in Users :
          cancelReceiving(s, id, u, FALSE, 0)
    \/ \E s \in Slots, id \in DonationIds, u \in Users, updates \in updateProgressSchema :
          updateProgress(s, id, u, updates, FALSE, 0)
    \/ \E s \in Slots, id \in DonationIds, u \in Users, reason \in Reasons :
          signalReturn(s, id, u, reason, FALSE, 0)
    \/ \E s \in Slots, id \in DonationIds, u \in Users :
          confirmReturn(s, id, u, FALSE, 0)
    \/ \E s \in Slots : Continue(s)

SpecConc == InitConc /\ [][NextConc]_vars

(* One request, of which the store may reject one write, from each of the states
   between requests above. *)
NextFault ==
    \/ \E u \in Users, data \in CreateDonationData, k \in FailPoints :
          createDonation(1, u, data, TRUE, k)
    \/ \E id \in DonationIds, u \in Users, body \in LifecycleEdits, k \in FailPoints :
          updateDonation(1, id, u, validate(body), TRUE, k)
    \/ \E id \in DonationIds, u \in Users, k \in FailPoints : deleteDonation(1, id, u, TRUE, k)
    \/ \E id \in DonationIds, u \in Users, k \in FailPoints : applyForDonation(1, id, u, TRUE, k)
    \/ \E id \in DonationIds, u \in Users, k \in FailPoints : withdrawCandidacy(1, id, u, TRUE, k)
    \/ \E id \in DonationIds, u \in Users, v \in Users, k \in FailPoints :
          chooseReceiver(1, id, v, u, TRUE, k)
    \/ \E id \in DonationIds, u \in Users, k \in FailPoints : cancelReceiving(1, id, u, TRUE, k)
    \/ \E id \in DonationIds, u \in Users, updates \in updateProgressSchema, k \in FailPoints :
          updateProgress(1, id, u, updates, TRUE, k)
    \/ \E id \in DonationIds, u \in Users, reason \in Reasons, k \in FailPoints :
          signalReturn(1, id, u, reason, TRUE, k)
    \/ \E id \in DonationIds, u \in Users, k \in FailPoints : confirmReturn(1, id, u, TRUE, k)

SpecFault == InitConc /\ [][NextFault]_vars

(* The donor's side of an OPEN donation, handlers one at a time, with every body
   updateDonationSchema accepts. *)
NextEdit ==
    \/ \E u \in Users, data \in CreateDonationData : createDonation(1, u, data, TRUE, 0)
    \/ \E id \in DonationIds, u \in Users, body \in RequestBodies :
          updateDonation(1, id, u, validate(body), TRUE, 0)
    \/ \E id \in DonationIds, u \in Users : deleteDonation(1, id, u, TRUE, 0)
    \/ \E id \in DonationIds, u \in Users : applyForDonation(1, id, u, TRUE, 0)
    \/ \E id \in DonationIds, u \in Users : withdrawCandidacy(1, id, u, TRUE, 0)
    \/ \E id \in DonationIds, u \in Users, v \in Users : chooseReceiver(1, id, v, u, TRUE, 0)
    \/ \E id \in DonationIds, u \in Users : cancelReceiving(1, id, u, TRUE, 0)
    \/ Respond(1)

SpecEdit == Init /\ [][NextEdit]_vars

(* ------------------------------------------------------------------ *)
(* Auth routes: login, logout, verify, forgot-password, reset-password  *)
(* ------------------------------------------------------------------ *)
(* no token at all, as a value of the tokens' shape *)
NoToken == [userId |-> NULL, exp |-> 0, signed |-> FALSE]

(* a token whose signature does not verify *)
ForgedToken == [userId |-> "u1", exp |-> MaxClock + 1, signed |-> FALSE]

(* jwt.verify: JsonWebTokenError on a bad signature, TokenExpiredError once the clock
   has reached exp; both leave as UnauthorizedError *)
verifyToken(token, now) ==
    IF ~token.signed THEN [ok |-> FALSE, error |-> "Unauthorized"]
    ELSE IF now >= token.exp THEN [ok |-> FALSE, error |-> "Unauthorized"]
    ELSE [ok |-> TRUE, userId |-> token.userId]

(* jwt.decode reads exp without verifying anything *)
getTokenExpiration(token) == token.exp

(* ---- AuthRepository and UserRepository over the auth store A ---- *)
revokeToken(A, token) == [A EXCEPT !.revokedTokens = @ \cup {token}]

isTokenRevoked_Never(A, token) == FALSE

isTokenRevoked(A, token) == token \in A.revokedTokens

cleanExpiredRevokedTokens(A) ==
    [A EXCEPT !.revokedTokens = { t \in @ : ~(getTokenExpiration(t) < A.now) }]

createPasswordResetToken(A, userId, token, expiresAt) ==
    [A EXCEPT !.passwordResetTokens =
        [t \in DOMAIN @ \cup {token} |->
            IF t = token THEN [userId |-> userId, used |-> FALSE, expiresAt |-> expiresAt]
            ELSE @[t]]]

findPasswordResetToken(A, token) ==
    IF token \in DOMAIN A.passwordResetTokens THEN A.passwordResetTokens[token] ELSE NoRecord

markPasswordResetTokenAsUsed(A, tokenId) ==
    [A EXCEPT !.passwordResetTokens[tokenId].used = TRUE]

invalidateAllPasswordResetTokens(A, userId) ==
    [A EXCEPT !.passwordResetTokens =
        [t \in DOMAIN @ |-> IF @[t].userId = userId /\ ~@[t].used
                            THEN [@[t] EXCEPT !.used = TRUE] ELSE @[t]]]

cleanExpiredPasswordResetTokens(A) ==
    [A EXCEPT !.passwordResetTokens =
        [t \in { x \in DOMAIN @ : ~(@[x].expiresAt < A.now) } |-> @[t]]]

countValidPasswordResetTokens(A, userId) ==
    Cardinality({ t \in DOMAIN A.passwordResetTokens :
                    /\ A.passwordResetTokens[t].userId = userId
                    /\ ~A.passwordResetTokens[t].used
                    /\ A.passwordResetTokens[t].expiresAt > A.now })

findByEmail(A, email) == IF email \in Accounts THEN email ELSE NULL

updatePassword(A, id, hashedPassword) == [A EXCEPT !.password[id] = hashedPassword]

(* ---- requests ---- *)
(* the Authorization header after split(" "): absent, or its parts *)
NoHeader == <<>>
Bearer(token) == <<"Bearer", token>>

AuthReq(op, pc, result, token, handler, userId, password) ==
    [op |-> op, pc |-> pc, result |-> result, token |-> token, handler |-> handler,
     userId |-> userId, password |-> password]

(* authenticate: the header must be present, have two parts and the Bearer scheme; the
   token must verify and must not be in the RevokedToken list; only then next() runs
   the handler *)
authenticate(A, authorization) ==
    IF authorization = NoHeader THEN [next |-> FALSE, error |-> "Unauthorized"]
    ELSE IF Len(authorization) # 2 THEN [next |-> FALSE, error |-> "Unauthorized"]
    ELSE IF authorization[1] # "Bearer" THEN [next |-> FALSE, error |-> "Unauthorized"]
    ELSE IF ~verifyToken(authorization[2], A.now).ok
         THEN [next |-> FALSE, error |-> "Unauthorized"]
    ELSE IF isTokenRevoked(A, authorization[2])
         THEN [next |-> FALSE, error |-> "Unauthorized"]
    ELSE [next |-> TRUE, userId |-> authorization[2].userId]

(* the token a header presents *)
PresentedToken(authorization) ==
    IF Len(authorization) >= 2 THEN authorization[2] ELSE NoToken

(* the headers clients send: none, a lone scheme, a token that was handed out or a
   forged one under the Bearer scheme, a handed-out token under another scheme *)
Authorizations ==
    {NoHeader, <<"Bearer">>, Bearer(ForgedToken)}
    \cup { Bearer(t) : t \in auth.issued }
    \cup { <<"Basic", t>> : t \in auth.issued }

AuthUnchanged == UNCHANGED <<donations, progress, candidacies, history, counter>>

AuthArrives(s) ==
    /\ calls[s] = Idle
    /\ \A t \in Slots : t < s => calls[t] # Idle

(* POST /auth/login; loginSchema has no platform key, so validate drops the body's
   platform and the token gets the mobile expiry.  At most MaxIssued different tokens
   are handed out. *)
login(s, email, password) ==
    /\ AuthArrives(s)
    /\ Cardinality(auth.issued) < MaxIssued
    /\ LET user == findByEmail(auth, email)
       IN IF user = NULL \/ ~comparePassword(password, auth.password[user])
          THEN /\ calls' = [calls EXCEPT ![s] =
                    AuthReq("login", "done", "Unauthorized", NoToken, TRUE, NULL, NULL)]
               /\ UNCHANGED auth
          ELSE LET token == generateToken(user, NULL, auth.now)
               IN /\ calls' = [calls EXCEPT ![s] =
                        AuthReq("login", "done", "OK", token, TRUE, user, NULL)]
                  /\ auth' = [auth EXCEPT !.issued = @ \cup {token}]
    /\ AuthUnchanged

(* GET /auth/verify: authenticate, then the handler answers with req.user *)
verify(s, authorization) ==
    /\ AuthArrives(s)
    /\ LET a == authenticate(auth, authorization)
       IN calls' = [calls EXCEPT ![s] =
              IF a.next
              THEN AuthReq("verify", "done", "OK", PresentedToken(authorization), TRUE,
                           a.userId, NULL)
              ELSE AuthReq("verify", "done", a.error, PresentedToken(authorization), FALSE,
                           NULL, NULL)]
    /\ UNCHANGED auth
    /\ AuthUnchanged

(* POST /auth/logout: authenticate; the handler's store call is the next step *)
logout(s, authorization) ==
    /\ AuthArrives(s)
    /\ LET a == authenticate(auth, authorization)
       IN calls' = [calls EXCEPT ![s] =
              IF a.next
              THEN AuthReq("logout", "revokeToken", "OK", PresentedToken(authorization),
                           TRUE, a.userId, NULL)
              ELSE AuthReq("logout", "done", a.error, PresentedToken(authorization), FALSE,
                           NULL, NULL)]
    /\ UNCHANGED auth
    /\ AuthUnchanged

(* AuthService.logout: verifyToken again, then revokedToken.create, whose unique token
   raises P2002 when the token is already in the list *)
logoutStep(A, r) ==
    IF ~verifyToken(r.token, A.now).ok
    THEN [A |-> A, r |-> [r EXCEPT !.pc = "done", !.result = "Unauthorized"]]
    ELSE IF r.token \in A.revokedTokens
    THEN [A |-> A, r |-> [r EXCEPT !.pc = "done", !.result = "Conflict"]]
    ELSE [A |-> [revokeToken(A, r.token) EXCEPT !.loggedOut = @ \cup {r.token}],
          r |-> [r EXCEPT !.pc = "done", !.result = "OK"]]

(* POST /auth/forgot-password, in one step: an unknown email is answered like a known
   one; at most three valid tokens per user; generateSecureToken's 32 random bytes are
   a value it has not returned before *)
forgotPassword(s, email, resetToken) ==
    /\ AuthArrives(s)
    /\ resetToken \notin auth.generated
    /\ LET user == findByEmail(auth, email)
       IN IF user = NULL
          THEN /\ calls' = [calls EXCEPT ![s] =
                    AuthReq("forgotPassword", "done", "OK", NULL, TRUE, NULL, NULL)]
               /\ UNCHANGED auth
          ELSE IF countValidPasswordResetTokens(auth, user) >= 3
          THEN /\ calls' = [calls EXCEPT ![s] =
                    AuthReq("forgotPassword", "done", "ValidationFailed", NULL, TRUE, user, NULL)]
               /\ UNCHANGED auth
          ELSE /\ calls' = [calls EXCEPT ![s] =
                    AuthReq("forgotPassword", "done", "OK", resetToken, TRUE, user, NULL)]
               /\ auth' = [createPasswordResetToken(auth, user, resetToken,
                                                    auth.now + ResetTokenLifetime)
                               EXCEPT !.generated = @ \cup {resetToken}]
    /\ AuthUnchanged

(* AuthService.resetPassword, one repository call per step *)
resetPasswordStep(A, r) ==
    CASE r.pc = "findPasswordResetToken" ->
            LET resetToken == findPasswordResetToken(A, r.token)
            IN IF resetToken = NoRecord
               THEN [A |-> A, r |-> [r EXCEPT !.pc = "done", !.result = "NotFound"]]
               ELSE IF resetToken.used
               THEN [A |-> A, r |-> [r EXCEPT !.pc = "done", !.result = "ValidationFailed"]]
               ELSE IF resetToken.expiresAt < A.now
               THEN [A |-> A, r |-> [r EXCEPT !.pc = "done", !.result = "ValidationFailed"]]
               ELSE [A |-> A, r |-> [r EXCEPT !.pc = "updatePassword",
                                              !.userId = resetToken.userId]]
      [] r.pc = "updatePassword" ->
            [A |-> updatePassword(A, r.userId, hashPassword(r.password)),
             r |-> [r EXCEPT !.pc = "markPasswordResetTokenAsUsed"]]
      [] r.pc = "markPasswordResetTokenAsUsed" ->
            IF r.token \notin DOMAIN A.passwordResetTokens
            THEN [A |-> A, r |-> [r EXCEPT !.pc = "done", !.result = "NotFound"]]
            ELSE [A |-> markPasswordResetTokenAsUsed(A, r.token),
                  r |-> [r EXCEPT !.pc = "invalidateAllPasswordResetTokens"]]
      [] r.pc = "invalidateAllPasswordResetTokens" ->
            [A |-> [invalidateAllPasswordResetTokens(A, r.userId)
                        EXCEPT !.resetSucceeded = @ \cup {r.token}],
             r |-> [r EXCEPT !.pc = "done", !.result = "OK"]]

AuthStep(A, r) ==
    IF r.op = "logout" THEN logoutStep(A, r) ELSE resetPasswordStep(A, r)

(* POST /auth/reset-password: the request arrives and makes its first repository call *)
resetPassword(s, token, newPassword) ==
    /\ AuthArrives(s)
    /\ LET x == AuthStep(auth, AuthReq("resetPassword", "findPasswordResetToken", "OK",
                                       token, TRUE, NULL, newPassword))
       IN /\ auth' = x.A
          /\ calls' = [calls EXCEPT ![s] = x.r]
    /\ AuthUnchanged

(* the next repository call of the logout or resetPassword in slot s *)
ContinueAuth(s) ==
    /\ calls[s] # Idle
    /\ calls[s].pc # "done"
    /\ LET x == AuthStep(auth, calls[s])
       IN /\ auth' = x.A
          /\ calls' = [calls EXCEPT ![s] = x.r]
    /\ AuthUnchanged

(* the periodic clean-up jobs *)
cleanExpiredRevokedTokensJob ==
    /\ auth' = cleanExpiredRevokedTokens(auth)
    /\ auth' # auth
    /\ UNCHANGED calls
    /\ AuthUnchanged

cleanExpiredPasswordResetTokensJob ==
    /\ auth' = cleanExpiredPasswordResetTokens(auth)
    /\ auth' # auth
    /\ UNCHANGED calls
    /\ AuthUnchanged

(* time passes *)
Tick ==
    /\ auth.now < MaxClock
    /\ auth' = [auth EXCEPT !.now = @ + 1]
    /\ UNCHANGED calls
    /\ AuthUnchanged

(* Sessions: login, authenticated requests, logout, the RevokedToken clean-up, time. *)
NextSession ==
    \/ \E s \in Slots, e \in Emails, p \in Passwords : login(s, e, p)
    \/ \E s \in Slots, h \in Authorizations : verify(s, h)
    \/ \E s \in Slots, h \in Authorizations : logout(s, h)
    \/ \E s \in Slots : ContinueAuth(s)
    \/ \E s \in Slots : Respond(s)
    \/ cleanExpiredRevokedTokensJob
    \/ Tick

SpecSession == Init /\ [][NextSession]_vars

(* Password recovery: forgot-password and reset-password requests, two in flight at
   once, the PasswordResetToken clean-up, time. *)
NextReset ==
    \/ \E s \in Slots, e \in Emails, t \in ResetTokenValues : forgotPassword(s, e, t)
    \/ \E s \in Slots, t \in ResetTokenValues, p \in Passwords : resetPassword(s, t, p)
    \/ \E s \in Slots : ContinueAuth(s)
    \/ \E s \in Slots : Respond(s)
    \/ cleanExpiredPasswordResetTokensJob
    \/ Tick

SpecReset == Init /\ [][NextReset]_vars

(* ------------------------------------------------------------------ *)
(* Properties                                                           *)
(* ------------------------------------------------------------------ *)
storeVars == <<donations, progress, candidacies, history, counter>>

(* slot s receives in this step a request whose handler has answered *)
Answered(s) == calls[s] = Idle /\ calls'[s] # Idle /\ calls'[s].pc = "done"

(* C1 as stated: every donation has a receiver iff its status is IN_PROGRESS or
   PICKED_UP. *)
C1_ReceiverIffInProgressOrPickedUp ==
    \A d \in DOMAIN donations :
        donations[d].receiverId # NULL <=> donations[d].status \in {"IN_PROGRESS", "PICKED_UP"}

(* C1 amended: between requests, every donation has a receiver iff its status is
   IN_PROGRESS, PICKED_UP or COMPLETED (a completed donation keeps its receiver). *)
C1_ReceiverIffNotOpen ==
    \A d \in DOMAIN donations :
        donations[d].receiverId # NULL
            <=> donations[d].status \in {"IN_PROGRESS", "PICKED_UP", "COMPLETED"}

C1_Witness ==
    \E d \in DOMAIN donations :
        donations[d].status = "COMPLETED" /\ donations[d].receiverId # NULL

(* C2: once a donation's status is COMPLETED, no step changes it (nor removes the
   donation). *)
C2_CompletedIsTerminal ==
    [][\A d \in DOMAIN donations :
          donations[d].status = "COMPLETED"
              => d \in DOMAIN donations' /\ donations'[d].status = "COMPLETED"]_vars

(* C6: when chooseReceiver has answered with success, no candidacy of that donation
   is left, the chosen user's own included. *)
C6_ChooseReceiverPurgesCandidacies ==
    \A s \in Slots :
        (calls[s] # Idle /\ calls[s].op = "chooseReceiver" /\ calls[s].result = "OK")
            => \A c \in candidacies : c.donationId # calls[s].id

C6_Witness ==
    \E s \in Slots :
        /\ calls[s] # Idle /\ calls[s].op = "chooseReceiver" /\ calls[s].result = "OK"
        /\ calls[s].id \in DOMAIN donations
        /\ donations[calls[s].id].receiverId = calls[s].receiverId
        /\ donations[calls[s].id].status = "IN_PROGRESS"

(* C7: when a store write of chooseReceiver, cancelReceiving, updateProgress,
   signalReturn or confirmReturn fails, the donation, its Progress record and its
   candidacies are as before the call. *)
C7_FailedWriteRollsBack ==
    [][\A s \in Slots :
          (/\ Answered(s)
           /\ calls'[s].op \in {"chooseReceiver", "cancelReceiving", "updateProgress",
                                "signalReturn", "confirmReturn"}
           /\ calls'[s].result = "InternalError")
              => UNCHANGED storeVars]_vars

(* the request r, made in the current state, names a flag of the half that is not
   its sender's *)
OtherHalfRequest(r) ==
    /\ r.op = "updateProgress"
    /\ r.id \in DOMAIN donations
    /\ \/ donations[r.id].donorId = r.userId /\ DOMAIN r.updates \cap ReceiverFlags # {}
       \/ donations[r.id].receiverId = r.userId /\ DOMAIN r.updates \cap DonorFlags # {}

(* C8 as stated: an updateProgress naming a flag of the other party's half always
   answers Forbidden and changes nothing. *)
C8_OtherHalfAlwaysForbidden ==
    [][\A s \in Slots :
          (Answered(s) /\ OtherHalfRequest(calls'[s]))
              => calls'[s].result = "Forbidden" /\ UNCHANGED storeVars]_vars

(* C8 amended: such a request always fails and changes nothing; it answers Forbidden
   when the donation has a receiver and a Progress record, and ValidationFailed when
   it has not. *)
C8_OtherHalfFailsUnchanged ==
    [][\A s \in Slots :
          (Answered(s) /\ OtherHalfRequest(calls'[s]))
              => /\ UNCHANGED storeVars
                 /\ LET id == calls'[s].id IN
                    IF donations[id].receiverId # NULL /\ id \in DOMAIN progress
                    THEN calls'[s].result = "Forbidden"
                    ELSE calls'[s].result = "ValidationFailed"]_vars

C8_Witness ==
    \E s \in Slots :
        /\ calls[s] # Idle /\ calls[s].pc = "done"
        /\ OtherHalfRequest(calls[s])
        /\ calls[s].result = "Forbidden"
        /\ \E f \in DOMAIN calls[s].updates : ~calls[s].updates[f]

(* C10: a return-confirmed flag turns from false to true only while
   returnSignaledByReceiver is true. *)
C10_ReturnConfirmedNeedsSignal ==
    [][\A d \in DOMAIN progress \cap DOMAIN progress' :
          \A f \in {"returnConfirmedByDonor", "returnConfirmedByReceiver"} :
              (~progress[d][f] /\ progress'[d][f]) => progress[d]["returnSignaledByReceiver"]]_vars

(* both slots hold answered calls of op on the same donation, each of which would
   have succeeded had it run alone *)
BothAnswered(op) ==
    /\ \A s \in Slots : calls[s] # Idle /\ calls[s].op = op /\ calls[s].pc = "done"
                        /\ calls[s].alone = "OK"
    /\ calls[1].id = calls[2].id

(* C3: of two concurrent chooseReceiver calls of the donor on the same OPEN donation,
   each naming a candidate, exactly one answers success and the other answers
   ValidationFailed or Conflict; the donation has one receiver, named by one of them,
   and one Progress record. *)
C3_ConcurrentChooseOneWinner ==
    BothAnswered("chooseReceiver") =>
        /\ \E s \in Slots :
              /\ calls[s].result = "OK"
              /\ \A t \in Slots \ {s} : calls[t].result \in {"ValidationFailed", "Conflict"}
        /\ calls[1].id \in DOMAIN donations
        /\ donations[calls[1].id].receiverId \in {calls[1].receiverId, calls[2].receiverId}
        /\ calls[1].id \in DOMAIN progress

C3_Witness ==
    /\ BothAnswered("chooseReceiver")
    /\ calls[1].receiverId # calls[2].receiverId
    /\ \E s \in Slots : calls[s].result = "Conflict"

(* C4: in every state, a Progress record exists for a donation iff the donation has
   a receiver. *)
C4_ProgressIffReceiver ==
    \A d \in DOMAIN donations :
        d \in DOMAIN progress <=> donations[d].receiverId # NULL

(* C5: in every state, no Candidacy refers to a donation whose status is not OPEN. *)
C5_CandidacyOnlyWhileOpen ==
    \A c \in candidacies :
        c.donationId \in DOMAIN donations => donations[c.donationId].status = "OPEN"

(* C9: a completion flag turns from false to true only when both pickup flags are
   true, under every interleaving of the two parties' calls. *)
C9_CompletionNeedsPickup ==
    [][\A d \in DOMAIN progress \cap DOMAIN progress' :
          \A f \in {"completionConfirmedByDonor", "completionConfirmedByReceiver"} :
              (~progress[d][f] /\ progress'[d][f])
                  => /\ progress'[d]["pickupConfirmedByDonor"]
                     /\ progress'[d]["pickupConfirmedByReceiver"]]_vars

(* ---- C11..C20 ---- *)

(* the store after the step, as a value *)
StoreAfter == [donations |-> donations', progress |-> progress', candidacies |-> candidacies',
               history |-> history', counter |-> counter']

PickupFlags == {"pickupConfirmedByDonor", "pickupConfirmedByReceiver"}
CompletionFlags == {"completionConfirmedByDonor", "completionConfirmedByReceiver"}

(* C11: on the way create, apply, chooseReceiver: the updateProgress that makes both
   pickup flags true on an IN_PROGRESS donation leaves it PICKED_UP; the one that
   makes both completion flags true on a PICKED_UP donation leaves it COMPLETED; and
   on a COMPLETED donation every updateDonation or deleteDonation of the donor answers
   ValidationFailed and changes nothing. *)
C11_HappyPathRoundTrip ==
    [][\A s \in Slots :
          Answered(s) =>
            LET r == calls'[s] IN
            /\ (/\ r.op = "updateProgress" /\ r.result = "OK"
                /\ donations[r.id].status = "IN_PROGRESS"
                /\ \A f \in PickupFlags : progress'[r.id][f])
                   => donations'[r.id].status = "PICKED_UP"
            /\ (/\ r.op = "updateProgress" /\ r.result = "OK"
                /\ donations[r.id].status = "PICKED_UP"
                /\ \A f \in CompletionFlags : progress'[r.id][f])
                   => donations'[r.id].status = "COMPLETED"
            /\ (/\ r.op \in {"updateDonation", "deleteDonation"}
                /\ r.id \in DOMAIN donations
                /\ donations[r.id].status = "COMPLETED"
                /\ donations[r.id].donorId = r.userId)
                   => r.result = "ValidationFailed" /\ UNCHANGED storeVars]_vars

C11_Witness ==
    \E s \in Slots :
        /\ calls[s] # Idle /\ calls[s].op = "deleteDonation"
        /\ calls[s].result = "ValidationFailed"
        /\ calls[s].id \in DOMAIN donations
        /\ donations[calls[s].id].status = "COMPLETED"
        /\ donations[calls[s].id].donorId = calls[s].userId
        /\ \A f \in PickupFlags \cup CompletionFlags : progress[calls[s].id][f]

(* C12: the confirmReturn that completes a signalled return of a PICKED_UP donation
   (the other party has confirmed already) leaves the donation OPEN with no receiver,
   no return reason and no Progress record, and an applyForDonation of any user but
   the donor then succeeds. *)
C12_ReturnRoundTrip ==
    [][\A s \in Slots :
          Answered(s) =>
            LET r == calls'[s]
                other == IF donations[r.id].donorId = r.userId
                         THEN "returnConfirmedByReceiver" ELSE "returnConfirmedByDonor"
            IN (/\ r.op = "confirmReturn" /\ r.result = "OK"
                /\ donations[r.id].status = "PICKED_UP"
                /\ progress[r.id]["returnSignaledByReceiver"]
                /\ progress[r.id][other])
                   => /\ donations'[r.id].status = "OPEN"
                      /\ donations'[r.id].receiverId = NULL
                      /\ donations'[r.id].returnReason = NULL
                      /\ r.id \notin DOMAIN progress'
                      /\ \A u \in Users \ {donations[r.id].donorId} :
                            Run(StoreAfter,
                                Req("applyForDonation", r.id, u, NULL, NoUpdates, NoData,
                                    NULL, "findById"), 0).r.result = "OK"]_vars

C12_Witness ==
    \E s \in Slots :
        /\ calls[s] # Idle /\ calls[s].op = "confirmReturn" /\ calls[s].result = "OK"
        /\ calls[s].donation.status = "PICKED_UP"
        /\ calls[s].donation.returnReason = "item damaged"
        /\ calls[s].id \in DOMAIN donations
        /\ donations[calls[s].id].status = "OPEN"
        /\ donations[calls[s].id].returnReason = NULL
        /\ calls[s].id \notin DOMAIN progress

(* the two slots hold answered updateProgress calls on the same donation, read
   IN_PROGRESS by the first: the donor's pickupConfirmedByDonor = true and the
   receiver's pickupConfirmedByReceiver = true *)
BothConfirmedPickup ==
    /\ \A s \in Slots : calls[s] # Idle /\ calls[s].op = "updateProgress"
                        /\ calls[s].pc = "done" /\ calls[s].alone = "OK"
    /\ calls[1].id = calls[2].id
    /\ calls[1].donation.status = "IN_PROGRESS"
    /\ \E s \in Slots :
          /\ calls[s].userId = calls[s].donation.donorId
          /\ calls[s].updates = [f \in {"pickupConfirmedByDonor"} |-> TRUE]
          /\ \A t \in Slots \ {s} :
                /\ calls[t].userId = calls[t].donation.receiverId
                /\ calls[t].updates = [f \in {"pickupConfirmedByReceiver"} |-> TRUE]

(* C13: when the donor's and the receiver's concurrent pickup confirmations on an
   IN_PROGRESS donation have both returned, both succeeded, both pickup flags are
   true and the status is PICKED_UP, under every interleaving. *)
C13_ConcurrentPickupKeepsBothWrites ==
    BothConfirmedPickup =>
        /\ \A s \in Slots : calls[s].result = "OK"
        /\ \A f \in PickupFlags : progress[calls[1].id][f]
        /\ donations[calls[1].id].status = "PICKED_UP"

(* both calls read the Progress record before either wrote *)
C13_Witness ==
    /\ BothConfirmedPickup
    /\ \A s \in Slots : calls[s].donation.status = "IN_PROGRESS"
    /\ \E s \in Slots : \E f \in PickupFlags : ~calls[s].updatedProgress[f]

(* C14: in every state, under every interleaving, no two Candidacy records share
   their donation and their applicant. *)
C14_OneCandidacyPerPair ==
    \A c \in candidacies : \A e \in candidacies :
        (c.donationId = e.donationId /\ c.userId = e.userId) => c = e

(* two concurrent applications of one user for one donation, of which the unique
   index refused the second *)
C14_Witness ==
    /\ BothAnswered("applyForDonation")
    /\ calls[1].userId = calls[2].userId
    /\ \E s \in Slots : calls[s].result = "OK"
    /\ \E s \in Slots : calls[s].result = "Conflict"
    /\ Cardinality(CandidaciesOf(Store, calls[1].id, calls[1].userId)) = 1

(* the request r, made in the current state, is an applyForDonation of a user who
   has a Candidacy for that donation *)
DuplicateApply(r) ==
    /\ r.op = "applyForDonation"
    /\ CandidaciesOf(Store, r.id, r.userId) # {}

(* C15 as stated: applyForDonation of a user who already has a Candidacy for the
   donation answers Conflict and leaves the Candidacies unchanged. *)
C15_DuplicateApplyConflict ==
    [][\A s \in Slots :
          (Answered(s) /\ DuplicateApply(calls'[s]))
              => calls'[s].result = "Conflict" /\ UNCHANGED candidacies]_vars

(* C15 amended: such an applyForDonation answers ValidationFailed and changes
   nothing. *)
C15_DuplicateApplyValidationFailed ==
    [][\A s \in Slots :
          (Answered(s) /\ DuplicateApply(calls'[s]))
              => calls'[s].result = "ValidationFailed" /\ UNCHANGED storeVars]_vars

C15_Witness ==
    \E s \in Slots :
        /\ calls[s] # Idle /\ calls[s].pc = "done"
        /\ DuplicateApply(calls[s])
        /\ calls[s].result = "ValidationFailed"
        /\ donations[calls[s].id].status = "OPEN"

(* C16: applyForDonation on a donation of which the applicant is the donor, or whose
   status is not OPEN, answers ValidationFailed and creates no Candidacy. *)
C16_ApplyByDonorOrNotOpenFails ==
    [][\A s \in Slots :
          Answered(s) =>
            LET r == calls'[s] IN
            (/\ r.op = "applyForDonation"
             /\ r.id \in DOMAIN donations
             /\ \/ donations[r.id].donorId = r.userId
                \/ donations[r.id].status # "OPEN")
                => r.result = "ValidationFailed" /\ UNCHANGED storeVars]_vars

C16_Witness ==
    \E s \in Slots :
        /\ calls[s] # Idle /\ calls[s].op = "applyForDonation"
        /\ calls[s].result = "ValidationFailed"
        /\ calls[s].id \in DOMAIN donations
        /\ donations[calls[s].id].donorId # calls[s].userId
        /\ donations[calls[s].id].status = "PICKED_UP"

(* C17: in every state, under every interleaving, no donation's receiver is its
   donor. *)
C17_DonorIsNotReceiver ==
    \A d \in DOMAIN donations : donations[d].receiverId # donations[d].donorId

C17_Witness ==
    \E s \in Slots :
        /\ calls[s] # Idle /\ calls[s].op = "chooseReceiver" /\ calls[s].result = "OK"
        /\ calls[s].id \in DOMAIN donations
        /\ donations[calls[s].id].receiverId = calls[s].receiverId
        /\ \E t \in Slots \ {s} :
              /\ calls[t] # Idle /\ calls[t].op = "applyForDonation"
              /\ calls[t].userId = calls[s].receiverId /\ calls[t].result = "OK"

(* C18: chooseReceiver on an existing donation answers Forbidden when the actor is
   not the donor, ValidationFailed when the donor names a donation that is not OPEN
   or a receiver without a Candidacy, and success otherwise; when it fails nothing
   changes. *)
C18_ChooseReceiverGuards ==
    [][\A s \in Slots :
          Answered(s) =>
            LET r == calls'[s] IN
            (r.op = "chooseReceiver" /\ r.id \in DOMAIN donations)
                => /\ r.result =
                        IF donations[r.id].donorId # r.userId THEN "Forbidden"
                        ELSE IF \/ donations[r.id].status # "OPEN"
                                \/ CandidaciesOf(Store, r.id, r.receiverId) = {}
                             THEN "ValidationFailed"
                        ELSE "OK"
                   /\ r.result # "OK" => UNCHANGED storeVars]_vars

(* the donor names a user who did not apply, on an OPEN donation that has a
   candidate *)
C18_Witness ==
    \E s \in Slots :
        /\ calls[s] # Idle /\ calls[s].op = "chooseReceiver"
        /\ calls[s].result = "ValidationFailed"
        /\ calls[s].id \in DOMAIN donations
        /\ donations[calls[s].id].donorId = calls[s].userId
        /\ donations[calls[s].id].status = "OPEN"
        /\ CandidaciesOf(Store, calls[s].id, calls[s].receiverId) = {}
        /\ \E c \in candidacies : c.donationId = calls[s].id

(* C19: updateDonation and deleteDonation on an existing donation answer Forbidden
   to an actor who is not the donor and ValidationFailed to the donor when the status
   is not OPEN, changing nothing in either case; they change the store only for the
   donor of an OPEN donation. *)
C19_EditOnlyByDonorWhileOpen ==
    [][\A s \in Slots :
          Answered(s) =>
            LET r == calls'[s] IN
            (r.op \in {"updateDonation", "deleteDonation"} /\ r.id \in DOMAIN donations)
                => /\ donations[r.id].donorId # r.userId
                        => r.result = "Forbidden" /\ UNCHANGED storeVars
                   /\ (donations[r.id].donorId = r.userId /\ donations[r.id].status # "OPEN")
                        => r.result = "ValidationFailed" /\ UNCHANGED storeVars
                   /\ ~(UNCHANGED storeVars)
                        => donations[r.id].donorId = r.userId /\ donations[r.id].status = "OPEN"]_vars

(* a candidate's updateDonation on an OPEN donation is refused *)
C19_Witness ==
    \E s \in Slots :
        /\ calls[s] # Idle /\ calls[s].op = "updateDonation"
        /\ calls[s].result = "Forbidden"
        /\ calls[s].id \in DOMAIN donations
        /\ donations[calls[s].id].status = "OPEN"
        /\ CandidaciesOf(Store, calls[s].id, calls[s].userId) # {}
        /\ calls[s].data # donations[calls[s].id].fields

(* C20: the donor's deleteDonation of an OPEN donation removes the donation and every
   Candidacy, edit-history entry and Progress record that refers to it; deleteDonation
   of a donation that has a receiver fails, with ValidationFailed for the donor, and
   removes nothing. *)
C20_DeleteCascadesOrIsRejected ==
    [][\A s \in Slots :
          Answered(s) =>
            LET r == calls'[s] IN
            (r.op = "deleteDonation" /\ r.id \in DOMAIN donations)
                => /\ (donations[r.id].donorId = r.userId /\ donations[r.id].status = "OPEN")
                        => /\ r.result = "OK"
                           /\ r.id \notin DOMAIN donations'
                           /\ \A c \in candidacies' : c.donationId # r.id
                           /\ r.id \notin DOMAIN history'
                           /\ r.id \notin DOMAIN progress'
                   /\ donations[r.id].receiverId # NULL
                        => /\ r.result # "OK"
                           /\ donations[r.id].donorId = r.userId => r.result = "ValidationFailed"
                           /\ UNCHANGED storeVars]_vars

C20_Witness ==
    \E s \in Slots :
        /\ calls[s] # Idle /\ calls[s].op = "deleteDonation" /\ calls[s].result = "OK"
        /\ calls[s].id \notin DOMAIN donations
        /\ calls[s].id \notin DOMAIN history
        /\ \A c \in candidacies : c.donationId # calls[s].id
        /\ counter > 0

(* ---- C21..C30 ---- *)

(* the edit-history entries of donation id, oldest first *)
HistoryOf(h, id) == IF id \in DOMAIN h THEN h[id] ELSE << >>

(* the fields of the body whose value differs from the stored one *)
ChangedKeys(old, data) == { f \in DOMAIN data : old[f] # data[f] }

(* C21: an updateDonation that succeeds with a body whose fields all equal the stored
   values writes no edit-history entry and leaves the donation (and the whole store)
   unchanged; one that succeeds with a body in which exactly one field differs writes
   exactly one entry, whose map holds only that field, with the stored value as old
   and the requested value as new. *)
C21_DiffDrivesEditHistory ==
    [][Answered(1) =>
         LET r == calls'[1] IN
         (r.op = "updateDonation" /\ r.result = "OK") =>
            LET old == donations[r.id].fields
                changed == ChangedKeys(old, r.data)
            IN /\ changed = {} => UNCHANGED storeVars
               /\ Cardinality(changed) = 1 =>
                     \E f \in changed :
                        history'[r.id] =
                            Append(HistoryOf(history, r.id),
                                   [k \in {f} |-> [oldValue |-> old[f], newValue |-> r.data[f]]])]_vars

(* a body with two fields of which only the description differs has been applied as the
   second edit: the second entry holds the description alone *)
C21_Witness ==
    /\ calls[1] # Idle /\ calls[1].op = "updateDonation" /\ calls[1].result = "OK"
    /\ DOMAIN calls[1].data = {"title", "description"}
    /\ Len(HistoryOf(history, calls[1].id)) = 2
    /\ DOMAIN history[calls[1].id][2] = {"description"}
    /\ calls[1].data["title"] = donations[calls[1].id].fields["title"]

(* C22: the edit history of a donation is append-only and complete.  A successful
   updateDonation that changes at least one field adds exactly one entry after the
   existing ones; a successful deleteDonation removes the entries with the donation;
   every other step, whatever the request and its answer, leaves the entries of every
   donation as they were.  So the number of entries of a donation is the number of
   successful updateDonation calls that changed a field. *)
C22_EditHistoryAppendOnly ==
    [][\A id \in ObjectIds :
          LET h == HistoryOf(history, id)
              hAfter == HistoryOf(history', id)
              r == calls'[1]
          IN IF Answered(1) /\ r.id = id /\ r.result = "OK" /\ r.op = "updateDonation"
                /\ ChangedKeys(donations[id].fields, r.data) # {}
             THEN Len(hAfter) = Len(h) + 1 /\ SubSeq(hAfter, 1, Len(h)) = h
             ELSE IF Answered(1) /\ r.id = id /\ r.result = "OK" /\ r.op = "deleteDonation"
             THEN hAfter = << >>
             ELSE hAfter = h]_vars

(* a second edit has been recorded after a first, different, one *)
C22_Witness ==
    /\ calls[1] # Idle /\ calls[1].op = "updateDonation" /\ calls[1].result = "OK"
    /\ Len(HistoryOf(history, calls[1].id)) = 2
    /\ history[calls[1].id][1] # history[calls[1].id][2]

(* C23: cancelReceiving on an existing donation succeeds only for the current receiver
   while the status is IN_PROGRESS, and then leaves the donation OPEN with no receiver
   and no Progress record; an actor who is not the receiver is answered Forbidden and
   the receiver of a PICKED_UP or COMPLETED donation ValidationFailed, and in both
   cases nothing changes. *)
C23_CancelReceivingOnlyInProgress ==
    [][Answered(1) =>
         LET r == calls'[1] IN
         (r.op = "cancelReceiving" /\ r.id \in DOMAIN donations) =>
            LET d == donations[r.id] IN
            /\ r.result = "OK" =>
                  /\ d.receiverId = r.userId /\ d.status = "IN_PROGRESS"
                  /\ donations'[r.id].status = "OPEN"
                  /\ donations'[r.id].receiverId = NULL
                  /\ r.id \notin DOMAIN progress'
            /\ d.receiverId # r.userId => r.result = "Forbidden" /\ UNCHANGED storeVars
            /\ (d.receiverId = r.userId /\ d.status \in {"PICKED_UP", "COMPLETED"})
                  => r.result = "ValidationFailed" /\ UNCHANGED storeVars]_vars

(* the receiver of a PICKED_UP donation has been refused *)
C23_Witness ==
    /\ calls[1] # Idle /\ calls[1].op = "cancelReceiving"
    /\ calls[1].result = "ValidationFailed"
    /\ calls[1].id \in DOMAIN donations
    /\ donations[calls[1].id].status = "PICKED_UP"
    /\ donations[calls[1].id].receiverId = calls[1].userId

(* the withdrawCandidacy in slot s makes the store call pc in this step *)
WithdrawCall(s, pc) ==
    /\ calls[s] # Idle /\ calls[s].op = "withdrawCandidacy"
    /\ calls[s].pc = pc /\ calls'[s] # calls[s]

(* C24: the failures in the order stated.  A withdrawCandidacy on an existing donation
   that finds no Candidacy of the caller answers NotFound, whatever the status; one
   that finds the caller's Candidacy on a donation whose status it read as not OPEN
   answers ValidationFailed; both change nothing.  A withdrawCandidacy that succeeds
   removes the caller's Candidacy and no other, leaves the caller with none, and
   leaves the donation and every other record unchanged. *)
C24_WithdrawCandidacy ==
    [][\A s \in Slots :
          LET r == calls[s]
              mine == CandidaciesOf(Store, r.id, r.userId)
          IN /\ WithdrawCall(s, "findByDonationAndUser") =>
                  /\ mine = {} => calls'[s].result = "NotFound" /\ UNCHANGED storeVars
                  /\ (mine # {} /\ r.donation.status # "OPEN")
                        => calls'[s].result = "ValidationFailed" /\ UNCHANGED storeVars
                  /\ (mine # {} /\ r.donation.status = "OPEN")
                        => calls'[s].pc = "deleteCandidacy" /\ UNCHANGED storeVars
             /\ (WithdrawCall(s, "deleteCandidacy") /\ calls'[s].result = "OK") =>
                  /\ \E c \in mine : candidacies' = candidacies \ {c}
                  /\ CandidaciesOf(StoreAfter, r.id, r.userId) = {}
                  /\ UNCHANGED <<donations, progress, history, counter>>
             /\ (calls[s] # Idle /\ calls[s].op = "withdrawCandidacy" /\ calls'[s] # calls[s]
                 /\ ~(WithdrawCall(s, "deleteCandidacy") /\ calls'[s].result = "OK"))
                  => UNCHANGED storeVars]_vars

(* a withdrawCandidacy that read the donation after the donor's choice had made it
   IN_PROGRESS, and found the caller's Candidacy before the choice purged it, has been
   answered ValidationFailed *)
C24_Witness ==
    \E s \in Slots :
        /\ calls[s] # Idle /\ calls[s].op = "withdrawCandidacy"
        /\ calls[s].result = "ValidationFailed"
        /\ calls[s].donation.status = "IN_PROGRESS"

(* both pickup flags of donation id are true *)
PickupJointlyConfirmed(id) ==
    /\ id \in DOMAIN progress
    /\ progress[id]["pickupConfirmedByDonor"] /\ progress[id]["pickupConfirmedByReceiver"]

(* C25: signalReturn on an existing donation takes effect only when the actor is the
   receiver and both pickup flags are true.  An actor who is not the receiver is
   answered Forbidden, the receiver before the joint pickup confirmation
   ValidationFailed, and in both cases returnSignaledByReceiver and returnReason are
   unchanged; on success returnSignaledByReceiver is true, returnReason holds the given
   reason and the status is PICKED_UP. *)
C25_SignalReturnGuardsAndEffect ==
    [][Answered(1) =>
         LET r == calls'[1] IN
         (r.op = "signalReturn" /\ r.id \in DOMAIN donations) =>
            LET d == donations[r.id] IN
            /\ d.receiverId # r.userId
                  => r.result = "Forbidden" /\ UNCHANGED <<donations, progress>>
            /\ (d.receiverId = r.userId /\ ~PickupJointlyConfirmed(r.id))
                  => r.result = "ValidationFailed" /\ UNCHANGED <<donations, progress>>
            /\ r.result = "OK"
                  => /\ d.receiverId = r.userId /\ PickupJointlyConfirmed(r.id)
                     /\ progress'[r.id]["returnSignaledByReceiver"]
                     /\ donations'[r.id].returnReason = r.reason
                     /\ donations'[r.id].status = "PICKED_UP"]_vars

(* the return-confirmed flag of the party userId of donation d, and the counterpart's *)
OwnReturnFlag(d, userId) ==
    IF d.donorId = userId THEN "returnConfirmedByDonor" ELSE "returnConfirmedByReceiver"

OtherReturnFlag(d, userId) ==
    IF d.donorId = userId THEN "returnConfirmedByReceiver" ELSE "returnConfirmedByDonor"

(* a confirmReturn of the donor or the receiver arrives on a signaled return that the
   counterpart has not confirmed *)
ConfirmReturnBeforeCounterpart(r) ==
    /\ r.op = "confirmReturn"
    /\ r.id \in DOMAIN donations /\ r.id \in DOMAIN progress
    /\ r.userId \in {donations[r.id].donorId, donations[r.id].receiverId}
    /\ progress[r.id]["returnSignaledByReceiver"]
    /\ ~progress[r.id][OtherReturnFlag(donations[r.id], r.userId)]

(* C26: confirmReturn is idempotent per party.  While the counterpart has not confirmed
   a signaled return, a party's confirmReturn succeeds and writes that party's
   return-confirmed flag and nothing else; when that flag is already true (the party
   has confirmed before) the call succeeds and changes nothing, so that the state
   after a second call is the state after the first; in neither case is the donation
   reopened. *)
C26_ConfirmReturnIdempotentPerParty ==
    [][Answered(1) =>
         LET r == calls'[1] IN
         ConfirmReturnBeforeCounterpart(r) =>
            LET own == OwnReturnFlag(donations[r.id], r.userId) IN
            /\ r.result = "OK"
            /\ progress' = [progress EXCEPT ![r.id][own] = TRUE]
            /\ UNCHANGED <<donations, candidacies, history, counter>>
            /\ progress[r.id][own] => UNCHANGED storeVars
            /\ donations'[r.id].status # "OPEN" /\ donations'[r.id].receiverId # NULL]_vars

(* a party's confirmReturn has been answered while its own flag is true and the
   counterpart's is false: the donation still has its receiver and Progress record *)
C26_Witness ==
    /\ calls[1] # Idle /\ calls[1].op = "confirmReturn" /\ calls[1].result = "OK"
    /\ calls[1].id \in DOMAIN progress
    /\ progress[calls[1].id]["returnSignaledByReceiver"]
    /\ progress[calls[1].id][OwnReturnFlag(donations[calls[1].id], calls[1].userId)]
    /\ ~progress[calls[1].id][OtherReturnFlag(donations[calls[1].id], calls[1].userId)]
    /\ donations[calls[1].id].status = "PICKED_UP"

(* C27: confirmReturn on an existing donation by a user who is neither its donor nor
   its receiver is answered Forbidden; confirmReturn by the donor or the receiver
   while returnSignaledByReceiver is not true (the flag is false, or the donation has
   no Progress record) is answered ValidationFailed; in both cases no Progress flag
   and no field of the donation changes. *)
C27_ConfirmReturnGuards ==
    [][Answered(1) =>
         LET r == calls'[1] IN
         (r.op = "confirmReturn" /\ r.id \in DOMAIN donations) =>
            LET d == donations[r.id]
                party == r.userId \in {d.donorId, d.receiverId}
                signaled == r.id \in DOMAIN progress /\ progress[r.id]["returnSignaledByReceiver"]
            IN /\ ~party => r.result = "Forbidden" /\ UNCHANGED storeVars
               /\ (party /\ ~signaled) => r.result = "ValidationFailed" /\ UNCHANGED storeVars]_vars

(* the donor's confirmReturn on a PICKED_UP donation whose return has not been signaled
   has been refused *)
C27_Witness ==
    /\ calls[1] # Idle /\ calls[1].op = "confirmReturn"
    /\ calls[1].result = "ValidationFailed"
    /\ calls[1].id \in DOMAIN progress
    /\ donations[calls[1].id].status = "PICKED_UP"
    /\ donations[calls[1].id].donorId = calls[1].userId
    /\ ~progress[calls[1].id]["returnSignaledByReceiver"]

(* C28: returnReason is set only during an active return.  In every state, under every
   interleaving, a donation whose returnReason is not null has a Progress record with
   returnSignaledByReceiver true, and every OPEN donation has a null returnReason. *)
C28_ReturnReasonOnlyDuringReturn ==
    \A id \in DOMAIN donations :
        /\ donations[id].returnReason # NULL
              => id \in DOMAIN progress /\ progress[id]["returnSignaledByReceiver"]
        /\ donations[id].status = "OPEN" => donations[id].returnReason = NULL

(* the sequential numbers handed out so far: those of the stored donations and those
   held by the creations in flight that have made their allocation *)
AllocatedSequentialIds ==
    { donations[d].sequentialId : d \in DOMAIN donations }
        \cup { calls[s].sequentialId :
                  s \in { t \in Slots : calls[t] # Idle /\ calls[t].op = "createDonation"
                                          /\ calls[t].sequentialId # 0 } }

(* C29: sequential donation numbers are collision-free and increasing under every
   interleaving of concurrent createDonation calls: no step leaves two donations with
   the same sequentialId, and the number a creation is allocated is strictly larger
   than every number allocated before it. *)
C29_SequentialIdsUniqueAndIncreasing ==
    [][/\ \A a \in DOMAIN donations' : \A b \in DOMAIN donations' :
              a # b => donations'[a].sequentialId # donations'[b].sequentialId
       /\ \A s \in Slots :
              (calls[s] # Idle /\ calls[s].op = "createDonation"
               /\ calls[s].pc = "getNextSequentialId" /\ calls'[s] # calls[s])
                  => \A n \in AllocatedSequentialIds : calls'[s].sequentialId > n]_vars

(* two concurrent creations have both succeeded, and the one that arrived second was
   allocated the smaller number *)
C29_Witness ==
    /\ \A s \in Slots : calls[s] # Idle /\ calls[s].op = "createDonation"
                        /\ calls[s].result = "OK"
    /\ calls[1].id = "d1" /\ calls[2].id = "d2"
    /\ DOMAIN donations = {"d1", "d2"}
    /\ donations["d2"].sequentialId = 1
    /\ donations["d1"].sequentialId = 2

(* C30: the donor reference is immutable and a creation starts a donation from
   scratch.  No step changes the donorId of a donation that exists before and after
   it, whatever the request (an updateDonation whose body names a donorId included);
   a donation that a step creates belongs to the caller and has the status OPEN, no
   receiver and no Progress record. *)
C30_DonorImmutableAndFreshStart ==
    [][/\ \A id \in DOMAIN donations \cap DOMAIN donations' :
              donations'[id].donorId = donations[id].donorId
       /\ \A id \in DOMAIN donations' \ DOMAIN donations :
              /\ donations'[id].donorId = calls'[1].userId
              /\ donations'[id].status = "OPEN"
              /\ donations'[id].receiverId = NULL
              /\ id \notin DOMAIN progress']_vars

(* the donor's edit of the title has been applied and recorded, and the donation,
   the first and only one created, still belongs to the donor *)
C30_Witness ==
    /\ calls[1] # Idle /\ calls[1].op = "updateDonation" /\ calls[1].result = "OK"
    /\ counter = 1
    /\ donations[calls[1].id].donorId = calls[1].userId
    /\ donations[calls[1].id].fields["title"] = "b"
    /\ Len(HistoryOf(history, calls[1].id)) = 1
    /\ DOMAIN history[calls[1].id][1] = {"title"}

(* ---- C31..C40 ---- *)

(* the edges of the lifecycle diagram that leave a status other than COMPLETED *)
LifecycleEdges ==
    { <<"OPEN", "IN_PROGRESS">>, <<"IN_PROGRESS", "OPEN">>, <<"IN_PROGRESS", "PICKED_UP">>,
      <<"PICKED_UP", "COMPLETED">>, <<"PICKED_UP", "OPEN">> }

(* C31: under every interleaving, every step that changes the status of a donation
   that is not COMPLETED follows an edge of the lifecycle diagram: OPEN to IN_PROGRESS;
   IN_PROGRESS to OPEN or, with both pickup flags true, to PICKED_UP; PICKED_UP to
   COMPLETED, with both completion flags true, or to OPEN. *)
C31_StatusFollowsLifecycleEdges ==
    [][\A id \in DOMAIN donations \cap DOMAIN donations' :
          LET from == donations[id].status
              to == donations'[id].status
          IN (from # to /\ from # "COMPLETED") =>
                /\ <<from, to>> \in LifecycleEdges
                /\ to = "PICKED_UP" =>
                      /\ id \in DOMAIN progress'
                      /\ \A f \in PickupFlags : progress'[id][f]
                /\ to = "COMPLETED" =>
                      /\ id \in DOMAIN progress'
                      /\ \A f \in CompletionFlags : progress'[id][f]]_vars

(* C32: the return-pending sub-state exists only inside PICKED_UP: in every state a
   Progress record with returnSignaledByReceiver true belongs to a donation whose
   status is PICKED_UP. *)
C32_ReturnSignaledOnlyInPickedUp ==
    \A id \in DOMAIN progress :
        progress[id]["returnSignaledByReceiver"]
            => id \in DOMAIN donations /\ donations[id].status = "PICKED_UP"

(* every request has been answered *)
Quiescent == \A s \in Slots : calls[s] = Idle \/ calls[s].pc = "done"

(* C33: once every request in flight has returned, no donation has a Progress record
   in which returnSignaledByReceiver, returnConfirmedByDonor and
   returnConfirmedByReceiver are all true: the donation whose return both parties
   confirmed has gone back to OPEN and its record is gone. *)
C33_ConfirmedReturnReopens ==
    Quiescent =>
        \A id \in DOMAIN progress :
            ~(/\ progress[id]["returnSignaledByReceiver"]
              /\ progress[id]["returnConfirmedByDonor"]
              /\ progress[id]["returnConfirmedByReceiver"])

(* C34: under every interleaving, no step changes an editable field of a donation
   whose status is not OPEN (a donation that already has a receiver). *)
C34_FieldsFrozenOnceChosen ==
    [][\A id \in DOMAIN donations \cap DOMAIN donations' :
          donations[id].status # "OPEN" => donations'[id].fields = donations[id].fields]_vars

(* exactly one flag of the pair F is true in the Progress record p *)
OnlyOneOf(p, F) == Cardinality({ f \in F : p[f] }) = 1

(* the request r sets, and sets only, a flag of F that belongs to its sender *)
ConfirmsOwnFlag(r, F) ==
    /\ r.op = "updateProgress"
    /\ r.id \in DOMAIN donations /\ r.id \in DOMAIN progress
    /\ \E f \in F :
          /\ DOMAIN r.updates = {f} /\ r.updates[f]
          /\ \/ f \in DonorFlags /\ donations[r.id].donorId = r.userId
             \/ f \in ReceiverFlags /\ donations[r.id].receiverId = r.userId

(* C35: one party's confirmation never advances the lifecycle on its own, and the call
   succeeds at once.  A successful updateProgress on an IN_PROGRESS donation after which
   only one pickup flag is true leaves it IN_PROGRESS; one on a PICKED_UP donation after
   which only one completion flag is true leaves it PICKED_UP; a party setting its own
   pickup flag (on IN_PROGRESS) or its own completion flag (on PICKED_UP with the pickup
   jointly confirmed) is answered success; a confirmReturn on a signaled return whose
   counterpart has not confirmed is answered success and leaves the donation with its
   status, its receiver and its Progress record. *)
C35_OnePartyDoesNotAdvance ==
    [][Answered(1) =>
         LET r == calls'[1] IN
         /\ (r.op = "updateProgress" /\ r.result = "OK") =>
               /\ (donations[r.id].status = "IN_PROGRESS" /\ OnlyOneOf(progress'[r.id], PickupFlags))
                     => donations'[r.id].status = "IN_PROGRESS"
               /\ (donations[r.id].status = "PICKED_UP" /\ OnlyOneOf(progress'[r.id], CompletionFlags))
                     => donations'[r.id].status = "PICKED_UP"
         /\ (ConfirmsOwnFlag(r, PickupFlags) /\ donations[r.id].status = "IN_PROGRESS")
               => r.result = "OK"
         /\ (ConfirmsOwnFlag(r, CompletionFlags) /\ donations[r.id].status = "PICKED_UP"
             /\ PickupJointlyConfirmed(r.id))
               => r.result = "OK"
         /\ ConfirmReturnBeforeCounterpart(r) =>
               /\ r.result = "OK"
               /\ donations'[r.id].status = donations[r.id].status
               /\ donations'[r.id].receiverId = donations[r.id].receiverId
               /\ donations'[r.id].receiverId # NULL
               /\ r.id \in DOMAIN progress']_vars

(* the donor's pickup confirmation has been answered with success while the receiver
   has not confirmed: the donation is still IN_PROGRESS *)
C35_Witness ==
    /\ calls[1] # Idle /\ calls[1].op = "updateProgress" /\ calls[1].result = "OK"
    /\ DOMAIN calls[1].updates = {"pickupConfirmedByDonor"}
    /\ calls[1].id \in DOMAIN progress
    /\ progress[calls[1].id]["pickupConfirmedByDonor"]
    /\ ~progress[calls[1].id]["pickupConfirmedByReceiver"]
    /\ donations[calls[1].id].status = "IN_PROGRESS"

(* C36: when two concurrent chooseReceiver calls on the same OPEN donation, each of
   which would have succeeded alone, name different candidates and both have returned,
   the receiver stored on the donation is the candidate named by the call that
   answered success. *)
C36_ReceiverIsTheWinnersCandidate ==
    (BothAnswered("chooseReceiver") /\ calls[1].receiverId # calls[2].receiverId) =>
        \A s \in Slots :
            calls[s].result = "OK" => donations[calls[s].id].receiverId = calls[s].receiverId

(* C37: status and Progress flags are consistent whenever no request is in flight: a
   PICKED_UP or COMPLETED donation has both pickup flags true, a COMPLETED donation has
   both completion flags true, and an IN_PROGRESS donation does not have both pickup
   flags true. *)
C37_StatusMatchesFlags ==
    Quiescent =>
        \A id \in DOMAIN donations \cap DOMAIN progress :
            /\ donations[id].status \in {"PICKED_UP", "COMPLETED"}
                  => \A f \in PickupFlags : progress[id][f]
            /\ donations[id].status = "COMPLETED"
                  => \A f \in CompletionFlags : progress[id][f]
            /\ donations[id].status = "IN_PROGRESS"
                  => ~(\A f \in PickupFlags : progress[id][f])

(* C38: when the donor and the receiver call confirmReturn concurrently on a signaled
   return and both calls have returned, neither has failed, and the donation is OPEN
   with no receiver and no Progress record. *)
C38_ConcurrentConfirmReturn ==
    (BothAnswered("confirmReturn") /\ calls[1].userId # calls[2].userId) =>
        /\ \A s \in Slots : calls[s].result = "OK"
        /\ donations[calls[1].id].status = "OPEN"
        /\ donations[calls[1].id].receiverId = NULL
        /\ calls[1].id \notin DOMAIN progress

(* the resetPassword or authenticated request in slot s has just made a step *)
AuthStepped(s, ops) ==
    /\ calls'[s] # calls[s]
    /\ calls'[s] # Idle
    /\ calls'[s].op \in ops

(* C39: a password reset token is used successfully at most once: once a resetPassword
   with a token has succeeded, no resetPassword with that token changes the password or
   succeeds any more; and when a resetPassword succeeds, every reset token of that user
   is marked used. *)
C39_ResetTokenSingleUse ==
    [][\A s \in Slots :
          AuthStepped(s, {"resetPassword"}) =>
              /\ calls'[s].token \in auth.resetSucceeded =>
                    /\ auth'.password = auth.password
                    /\ ~(calls'[s].pc = "done" /\ calls'[s].result = "OK")
              /\ (calls'[s].pc = "done" /\ calls'[s].result = "OK") =>
                    \A t \in DOMAIN auth'.passwordResetTokens :
                        auth'.passwordResetTokens[t].userId = calls'[s].userId
                            => auth'.passwordResetTokens[t].used]_vars

(* C40: once logout(token) has succeeded, every later request that presents this token
   to authenticate is answered Unauthorized and its handler does not run. *)
C40_LogoutIsEffective ==
    [][\A s \in Slots :
          (calls[s] = Idle /\ AuthStepped(s, {"verify", "logout"})
                /\ calls'[s].token \in auth.loggedOut) =>
              /\ calls'[s].result = "Unauthorized"
              /\ ~calls'[s].handler]_vars

(* a request presenting a logged-out token whose signature and expiry are still valid
   has been answered Unauthorized without reaching its handler *)
C40_Witness ==
    \E s \in Slots :
        /\ calls[s] # Idle
        /\ calls[s].op = "verify"
        /\ calls[s].token \in auth.loggedOut
        /\ verifyToken(calls[s].token, auth.now).ok
        /\ calls[s].result = "Unauthorized"
        /\ ~calls[s].handler
====
